---- MODULE Spec2Model ----
(***************************************************************************)
(* Gluco Sahayak: the onboarding state machine of the WhatsApp bot.        *)
(*                                                                         *)
(* Text is a sequence of characters, each character a one-character        *)
(* string; a character outside ASCII is written as its code point          *)
(* ("U0939").  A JavaScript value that may be null or undefined is a       *)
(* sequence: <<>> for null/undefined, <<v>> for the value v.               *)
(***************************************************************************)
EXTENDS Integers, Sequences, FiniteSets, TLC

(***************************************************************************)
(* JavaScript string primitives                                            *)
(***************************************************************************)
Null == <<>>

Some(v) == <<v>>

UpperChars == <<"A","B","C","D","E","F","G","H","I","J","K","L","M",
                "N","O","P","Q","R","S","T","U","V","W","X","Y","Z">>

LowerChars == <<"a","b","c","d","e","f","g","h","i","j","k","l","m",
                "n","o","p","q","r","s","t","u","v","w","x","y","z">>

DigitChars == <<"0","1","2","3","4","5","6","7","8","9">>

IsDigit(c) == \E i \in 1..10 : DigitChars[i] = c

DigitVal(c) == (CHOOSE i \in 1..10 : DigitChars[i] = c) - 1

IsUpper(c) == \E i \in 1..26 : UpperChars[i] = c

IsLower(c) == \E i \in 1..26 : LowerChars[i] = c

\* \w of a JavaScript regular expression (no u flag): [A-Za-z0-9_]
IsWordChar(c) == IsDigit(c) \/ IsUpper(c) \/ IsLower(c) \/ c = "_"

\* white space as String.prototype.trim and \s see it
IsSpace(c) == c \in {" ", "\n", "\t", "\r"}

toLowerChar(c) ==
  IF IsUpper(c) THEN LowerChars[CHOOSE i \in 1..26 : UpperChars[i] = c] ELSE c

toUpperChar(c) ==
  IF IsLower(c) THEN UpperChars[CHOOSE i \in 1..26 : LowerChars[i] = c] ELSE c

toLowerCase(s) == [i \in 1..Len(s) |-> toLowerChar(s[i])]

trim(s) ==
  IF \A i \in 1..Len(s) : IsSpace(s[i]) THEN <<>>
  ELSE LET a == CHOOSE i \in 1..Len(s) :
                  ~IsSpace(s[i]) /\ \A j \in 1..(i-1) : IsSpace(s[j])
           b == CHOOSE i \in 1..Len(s) :
                  ~IsSpace(s[i]) /\ \A j \in (i+1)..Len(s) : IsSpace(s[j])
       IN  SubSeq(s, a, b)

\* s.startsWith at offset i (0-based offset i, as the regex engine scans)
MatchAt(s, i, sub) ==
  /\ i + Len(sub) <= Len(s)
  /\ \A k \in 1..Len(sub) : s[i + k] = sub[k]

includes(s, sub) == \E i \in 0..(Len(s) - Len(sub)) : MatchAt(s, i, sub)

startsWith(s, sub) == MatchAt(s, 0, sub)

\* the end (1-based, inclusive) of the longest run of digits starting at i
DigitRunEnd(s, i) ==
  CHOOSE e \in i..Len(s) :
    /\ \A k \in i..e : IsDigit(s[k])
    /\ (e = Len(s) \/ ~IsDigit(s[e + 1]))

\* message.match(/(\d+)/): the leftmost, longest run of digits, or null
matchDigits(s) ==
  IF \A i \in 1..Len(s) : ~IsDigit(s[i]) THEN Null
  ELSE LET a == CHOOSE i \in 1..Len(s) :
                  IsDigit(s[i]) /\ \A j \in 1..(i-1) : ~IsDigit(s[j])
       IN  Some(SubSeq(s, a, DigitRunEnd(s, a)))

\* Numbers are compared against small ranges only (1..120, 0..100, 3..20): a
\* digit string whose value exceeds NumberCap is read as NumberCap, which
\* every one of those comparisons treats like the exact value.
NumberCap == 100000

RECURSIVE parseIntFrom(_, _, _)
parseIntFrom(ds, i, acc) ==
  IF i > Len(ds) THEN acc
  ELSE LET n == acc * 10 + DigitVal(ds[i])
       IN  parseIntFrom(ds, i + 1, IF n > NumberCap THEN NumberCap ELSE n)

parseInt(ds) == parseIntFrom(ds, 1, 0)

\* message.replace(/\D/g, '')
digitsOnly(s) == SelectSeq(s, IsDigit)

(***************************************************************************)
(* Field parsers (server.js).  Each returns Null or Some(value).           *)
(***************************************************************************)
parseLanguage(message) ==
  LET lower == trim(toLowerCase(message)) IN
  IF lower = <<"1">> \/ includes(lower, <<"e","n","g","l","i","s","h">>) \/ lower = <<"e","n","g">> \/ lower = <<"e","n">>
    THEN Some("en")
  ELSE IF lower = <<"2">> \/ includes(lower, <<"h","i","n","d","i">>) \/ includes(lower, <<"U0939","U093F","U0902","U0926","U0940">>)
          \/ lower = <<"h","i">>
    THEN Some("hi")
  ELSE IF lower = <<"3">> \/ includes(lower, <<"k","a","n","n","a","d","a">>) \/ includes(lower, <<"U0C95","U0CA8","U0CCD","U0CA8","U0CA1">>)
          \/ lower = <<"k","n">>
    THEN Some("kn")
  ELSE Null

\* cleaned.split(' ').map(capitalise).join(' '): a character that starts a
\* word (after a space, or first) is upper-cased, every other lower-cased
parseName(message) ==
  LET cleaned == trim(message) IN
  IF Len(cleaned) = 0 THEN Null
  ELSE IF Len(cleaned) > 100 THEN Null
  ELSE Some([i \in 1..Len(cleaned) |->
              IF i = 1 \/ cleaned[i - 1] = " "
                THEN toUpperChar(cleaned[i]) ELSE toLowerChar(cleaned[i])])

parseAge(message) ==
  LET match == matchDigits(trim(message)) IN
  IF match = Null THEN Null
  ELSE LET age == parseInt(match[1]) IN
       IF age < 1 \/ age > 120 THEN Null ELSE Some(age)

parseGender(message) ==
  LET lower == trim(toLowerCase(message)) IN
  IF lower = <<"1">> \/ lower = <<"m","a","l","e">> \/ lower = <<"m">> \/ lower = <<"m","a","n">>
    THEN Some("Male")
  ELSE IF lower = <<"2">> \/ lower = <<"f","e","m","a","l","e">> \/ lower = <<"f">> \/ lower = <<"w","o","m","a","n">>
          \/ lower = <<"w">>
    THEN Some("Female")
  ELSE Null

parsePhone(message) ==
  LET digits == digitsOnly(message) IN
  IF Len(digits) = 10 /\ digits[1] \in {"6", "7", "8", "9"}
    THEN Some(<<"+", "9", "1">> \o digits)
  ELSE IF Len(digits) = 12 /\ startsWith(digits, <<"9","1">>)
    THEN Some(<<"+">> \o digits)
  ELSE Null

\* message.match(/\b(\d{6})\b/): the leftmost six digits with a word
\* boundary on both sides
PincodeAt(s, i) ==
  /\ i + 5 <= Len(s)
  /\ \A k \in i..(i + 5) : IsDigit(s[k])
  /\ (i = 1 \/ ~IsWordChar(s[i - 1]))
  /\ (i + 5 = Len(s) \/ ~IsWordChar(s[i + 6]))

parsePincode(message) ==
  IF \A i \in 1..Len(message) : ~PincodeAt(message, i) THEN Null
  ELSE LET a == CHOOSE i \in 1..Len(message) :
                  PincodeAt(message, i) /\ \A j \in 1..(i-1) : ~PincodeAt(message, j)
       IN  Some(SubSeq(message, a, a + 5))

parseConsent(message) ==
  LET lower == trim(toLowerCase(message)) IN
  IF lower = <<"1">> \/ lower = <<"y","e","s">> \/ lower = <<"y","e","a","h">> \/ lower = <<"o","k">>
     \/ lower = <<"y">> \/ includes(lower, <<"U0939","U093E","U0902">>) \/ includes(lower, <<"U0CB9","U0CCC","U0CA6","U0CC1">>)
    THEN Some(TRUE)
  ELSE IF lower = <<"2">> \/ lower = <<"n","o">> \/ lower = <<"n","o","p","e">> \/ lower = <<"n">>
          \/ includes(lower, <<"U0928","U0939","U0940","U0902">>) \/ includes(lower, <<"U0C87","U0CB2","U0CCD","U0CB2">>)
    THEN Some(FALSE)
  ELSE Null

parseDiabetesType(message) ==
  LET lower == trim(toLowerCase(message)) IN
  IF lower = <<"1">> \/ includes(lower, <<"t","y","p","e"," ","1">>) \/ includes(lower, <<"t","y","p","e","1">>)
    THEN Some("Type 1")
  ELSE IF lower = <<"2">> \/ includes(lower, <<"t","y","p","e"," ","2">>) \/ includes(lower, <<"t","y","p","e","2">>)
    THEN Some("Type 2")
  ELSE IF lower = <<"3">> \/ includes(lower, <<"g","e","s","t","a","t","i","o","n","a","l">>)
    THEN Some("Gestational")
  ELSE Null

parseDuration(message) ==
  LET match == matchDigits(message) IN
  IF match = Null THEN Null
  ELSE LET years == parseInt(match[1]) IN
       IF years < 0 \/ years > 100 THEN Null ELSE Some(years)

parseMedicationType(message) ==
  LET lower == trim(toLowerCase(message)) IN
  IF lower = <<"1">> \/ includes(lower, <<"i","n","s","u","l","i","n">>) THEN Some("Insulin")
  ELSE IF lower = <<"2">> \/ includes(lower, <<"t","a","b","l","e","t">>) THEN Some("Tablets")
  ELSE IF lower = <<"3">> \/ includes(lower, <<"b","o","t","h">>) \/ includes(lower, <<"U0926","U094B","U0928","U094B","U0902">>)
    THEN Some("Both")
  ELSE IF lower = <<"4">> \/ includes(lower, <<"n","o","n","e">>) \/ includes(lower, <<"U0928","U0939","U0940","U0902">>)
          \/ includes(lower, <<"U0C87","U0CB2","U0CCD","U0CB2">>)
    THEN Some("None")
  ELSE Null

\* the separators of message.split(/[,\n]|and|और|ಮತ್ತು/)
Separators == {<<",">>, <<"\n">>, <<"a","n","d">>, <<"U0914","U0930">>, <<"U0CAE","U0CA4","U0CCD","U0CA4","U0CC1">>}

SeparatorAt(s, i) == {sep \in Separators : MatchAt(s, i, sep)}

\* split: pieces of s from 0-based offset i on, cur being the piece so far
RECURSIVE splitFrom(_, _, _)
splitFrom(s, i, cur) ==
  IF i >= Len(s) THEN <<cur>>
  ELSE IF SeparatorAt(s, i) # {}
    THEN LET sep == CHOOSE x \in SeparatorAt(s, i) : TRUE
         IN  <<cur>> \o splitFrom(s, i + Len(sep), <<>>)
  ELSE splitFrom(s, i + 1, Append(cur, s[i + 1]))

TrimAll(pieces) == [i \in 1..Len(pieces) |-> trim(pieces[i])]

KeepMedicine(m) == Len(m) > 0 /\ Len(m) < 50

NoneList == <<<<"N","o","n","e">>>>

parseMedicineNames(message) ==
  LET lower == trim(toLowerCase(message)) IN
  IF lower = <<"n","o","n","e">> \/ includes(lower, <<"d","o","n","'","t"," ","k","n","o","w">>) \/ includes(lower, <<"U0928","U0939","U0940","U0902">>)
     \/ includes(lower, <<"U092A","U0924","U093E"," ","U0928","U0939","U0940","U0902">>) \/ includes(lower, <<"U0CA4","U0CBF","U0CB3","U0CBF","U0CA6","U0CBF","U0CB2","U0CCD","U0CB2">>)
    THEN NoneList
  ELSE LET medicines == SelectSeq(TrimAll(splitFrom(message, 0, <<>>)), KeepMedicine)
       IN  IF Len(medicines) = 0 THEN NoneList ELSE medicines

parseDiet(message) ==
  LET lower == trim(toLowerCase(message)) IN
  IF lower = <<"1">> \/ includes(lower, <<"v","e","g">>) \/ includes(lower, <<"U0936","U093E","U0915","U093E","U0939","U093E","U0930","U0940">>)
     \/ includes(lower, <<"U0CB6","U0CBE","U0C95","U0CBE","U0CB9","U0CBE","U0CB0","U0CBF">>)
    THEN Some("Veg")
  ELSE IF lower = <<"2">> \/ includes(lower, <<"n","o","n">>) \/ includes(lower, <<"U092E","U093E","U0902","U0938","U093E","U0939","U093E","U0930","U0940">>)
          \/ includes(lower, <<"U0CAE","U0CBE","U0C82","U0CB8","U0CBE","U0CB9","U0CBE","U0CB0","U0CBF">>)
    THEN Some("Non-Veg")
  ELSE IF lower = <<"3">> \/ includes(lower, <<"e","g","g">>) THEN Some("Eggetarian")
  ELSE Null

parseComorbidities(message) ==
  LET lower == trim(toLowerCase(message)) IN
  IF lower = <<"n","o","n","e">> \/ includes(lower, <<"U0928","U0939","U0940","U0902">>) \/ includes(lower, <<"U0C87","U0CB2","U0CCD","U0CB2">>)
     \/ lower = <<"n","o">> \/ lower = <<"n","i","l">>
    THEN NoneList
  ELSE LET conditions ==
             (IF includes(lower, <<"b","p">>) \/ includes(lower, <<"p","r","e","s","s","u","r","e">>)
                 \/ includes(lower, <<"h","y","p","e","r","t","e","n","s","i","o","n">>) THEN <<<<"B","P">>>> ELSE <<>>)
          \o (IF includes(lower, <<"c","h","o","l","e","s","t","e","r","o","l">>) \/ includes(lower, <<"l","i","p","i","d">>)
                THEN <<<<"C","h","o","l","e","s","t","e","r","o","l">>>> ELSE <<>>)
          \o (IF includes(lower, <<"h","e","a","r","t">>) \/ includes(lower, <<"c","a","r","d","i","a","c">>)
                 \/ includes(lower, <<"U0926","U093F","U0932">>) THEN <<<<"H","e","a","r","t">>>> ELSE <<>>)
          \o (IF includes(lower, <<"k","i","d","n","e","y">>) \/ includes(lower, <<"r","e","n","a","l">>)
                 \/ includes(lower, <<"U0917","U0941","U0930","U094D","U0926","U093E">>) THEN <<<<"K","i","d","n","e","y">>>> ELSE <<>>)
          \o (IF includes(lower, <<"t","h","y","r","o","i","d">>) THEN <<<<"T","h","y","r","o","i","d">>>> ELSE <<>>)
       IN  IF Len(conditions) > 0 THEN conditions ELSE NoneList

\* message.match(/(\d+\.?\d*)/) and parseFloat: the number is the pair
\* <<integer part, fraction digits without trailing zeros>>
StripZeros(ds) ==
  IF \A i \in 1..Len(ds) : ds[i] = "0" THEN <<>>
  ELSE SubSeq(ds, 1, CHOOSE e \in 1..Len(ds) :
                       ds[e] # "0" /\ \A k \in (e+1)..Len(ds) : ds[k] = "0")

matchDecimal(s) ==
  IF \A i \in 1..Len(s) : ~IsDigit(s[i]) THEN Null
  ELSE LET a == CHOOSE i \in 1..Len(s) :
                  IsDigit(s[i]) /\ \A j \in 1..(i-1) : ~IsDigit(s[j])
           e == DigitRunEnd(s, a)
           frac == IF e + 1 <= Len(s) /\ s[e + 1] = "."
                      /\ e + 2 <= Len(s) /\ IsDigit(s[e + 2])
                     THEN SubSeq(s, e + 2, DigitRunEnd(s, e + 2))
                     ELSE <<>>
       IN  Some(<<parseInt(SubSeq(s, a, e)), StripZeros(frac)>>)

\* the first test of parseHbA1c: a "don't know" answer
isDontKnow(message) ==
  LET lower == trim(toLowerCase(message)) IN
  \/ includes(lower, <<"d","o","n","'","t"," ","k","n","o","w">>) \/ includes(lower, <<"U092A","U0924","U093E"," ","U0928","U0939","U0940","U0902">>)
  \/ includes(lower, <<"U0CA4","U0CBF","U0CB3","U0CBF","U0CA6","U0CBF","U0CB2","U0CCD","U0CB2">>) \/ lower = <<"d","k">> \/ lower = <<"u","n","k","n","o","w","n">>

parseHbA1c(message) ==
  IF isDontKnow(message) THEN Null
  ELSE LET match == matchDecimal(message) IN
       IF match = Null THEN Null
       ELSE LET value == match[1] IN
            \* value < 3 || value > 20
            IF value[1] < 3 \/ value[1] > 20 \/ (value[1] = 20 /\ value[2] # <<>>)
              THEN Null ELSE Some(value)

(***************************************************************************)
(* The documents and the prompts                                           *)
(***************************************************************************)
\* the keys of OnboardingState.data and the onboarding fields of a Patient
Fields == {"language_pref", "full_name", "age", "gender", "emergency_contact",
           "pincode", "consent_given", "diabetes_type", "duration_years",
           "medication_type", "current_meds", "comorbidities", "last_hba1c",
           "diet_preference"}

\* new Map()
EmptyMap == [f \in Fields |-> Null]

\* dataMap.get(key) || fallback
getOr(dataMap, key, fallback) ==
  IF dataMap[key] = Null THEN Some(fallback) ELSE dataMap[key]

\* MESSAGES.<key>[lang], with {name} replaced where the prompt has it
Prompt(key, lang, name) == [retry |-> FALSE, key |-> key, lang |-> lang, name |-> name]

\* MESSAGES.error_retry[lang] + '\n\n' + MESSAGES.<key>[lang]
RePrompt(key, lang, name) == [retry |-> TRUE, key |-> key, lang |-> lang, name |-> name]

\* "Something went wrong. Type 'start' to begin again."
UnknownStepText == Prompt("something_went_wrong", "en", <<>>)

\* "Sorry, an error occurred. Please type 'start' to begin again."
CatchText == Prompt("error_occurred", "en", <<>>)

\* the reply of the medical-query path (analyzeWithClaudeRAG)
MedicalText == Prompt("medical_reply", "en", <<>>)

NoText == Prompt("", "en", <<>>)

\* the result of one pass through the switch of handleOnboarding
Outcome(data, nextStep, response, accepted) ==
  [data |-> data, nextStep |-> nextStep, response |-> response, accepted |-> accepted]

(***************************************************************************)
(* handleOnboarding of server.js: the switch on state.currentStep.         *)
(* lang is read before the switch; the result carries the map after the    *)
(* set calls, nextStep and response.                                       *)
(***************************************************************************)
Advance(data, key, parsed, nextStep, response) ==
  Outcome([data EXCEPT ![key] = parsed], nextStep, response, TRUE)

Reject(data, currentStep, response) == Outcome(data, currentStep, response, FALSE)

\* a switch without the branch that skips the medicine names
medicationAlwaysAsksNames(parsedMedType) == "medicine_names"

medicationNextStep(parsedMedType) ==
  IF parsedMedType = "None" THEN "diet" ELSE "medicine_names"

stepSwitch(currentStep, data, message) ==
  LET lang == getOr(data, "language_pref", "en")[1]
      fullName == IF data["full_name"] = Null THEN <<>> ELSE data["full_name"][1]
  IN
  CASE currentStep = "language" ->
         LET parsedLang == parseLanguage(message) IN
         IF parsedLang # Null
           THEN Advance(data, "language_pref", parsedLang, "name",
                        Prompt("ask_name", parsedLang[1], <<>>))
           ELSE Reject(data, currentStep, RePrompt("welcome", lang, <<>>))
    [] currentStep = "name" ->
         LET parsedName == parseName(message) IN
         IF parsedName # Null
           THEN Advance(data, "full_name", parsedName, "age",
                        Prompt("ask_age", lang, parsedName[1]))
           ELSE Reject(data, currentStep, RePrompt("ask_name", lang, <<>>))
    [] currentStep = "age" ->
         LET parsedAge == parseAge(message) IN
         IF parsedAge # Null
           THEN Advance(data, "age", parsedAge, "gender", Prompt("ask_gender", lang, <<>>))
           ELSE Reject(data, currentStep, RePrompt("ask_age", lang, fullName))
    [] currentStep = "gender" ->
         LET parsedGender == parseGender(message) IN
         IF parsedGender # Null
           THEN Advance(data, "gender", parsedGender, "emergency_contact",
                        Prompt("ask_emergency", lang, <<>>))
           ELSE Reject(data, currentStep, RePrompt("ask_gender", lang, <<>>))
    [] currentStep = "emergency_contact" ->
         LET parsedPhone == parsePhone(message) IN
         IF parsedPhone # Null
           THEN Advance(data, "emergency_contact", parsedPhone, "pincode",
                        Prompt("ask_pincode", lang, <<>>))
           ELSE Reject(data, currentStep, RePrompt("ask_emergency", lang, <<>>))
    [] currentStep = "pincode" ->
         LET parsedPincode == parsePincode(message) IN
         IF parsedPincode # Null
           THEN Advance(data, "pincode", parsedPincode, "consent",
                        Prompt("ask_consent", lang, <<>>))
           ELSE Reject(data, currentStep, RePrompt("ask_pincode", lang, <<>>))
    [] currentStep = "consent" ->
         LET parsedConsent == parseConsent(message) IN
         IF parsedConsent # Null
           THEN Advance(data, "consent_given", parsedConsent, "diabetes_type",
                        Prompt("ask_diabetes_type", lang, <<>>))
           ELSE Reject(data, currentStep, RePrompt("ask_consent", lang, <<>>))
    [] currentStep = "diabetes_type" ->
         LET parsedType == parseDiabetesType(message) IN
         IF parsedType # Null
           THEN Advance(data, "diabetes_type", parsedType, "duration",
                        Prompt("ask_duration", lang, <<>>))
           ELSE Reject(data, currentStep, RePrompt("ask_diabetes_type", lang, <<>>))
    [] currentStep = "duration" ->
         LET parsedDuration == parseDuration(message) IN
         IF parsedDuration # Null
           THEN Advance(data, "duration_years", parsedDuration, "medication_type",
                        Prompt("ask_medication", lang, <<>>))
           ELSE Reject(data, currentStep, RePrompt("ask_duration", lang, <<>>))
    [] currentStep = "medication_type" ->
         LET parsedMedType == parseMedicationType(message) IN
         IF parsedMedType # Null
           THEN LET next == medicationNextStep(parsedMedType[1])
                    set  == [data EXCEPT !["medication_type"] = parsedMedType]
                IN  IF next = "diet"
                      THEN Outcome([set EXCEPT !["current_meds"] = Some(NoneList)],
                                   next, Prompt("ask_diet", lang, <<>>), TRUE)
                      ELSE Outcome(set, next, Prompt("ask_medicine_names", lang, <<>>), TRUE)
           ELSE Reject(data, currentStep, RePrompt("ask_medication", lang, <<>>))
    [] currentStep = "medicine_names" ->
         Advance(data, "current_meds", Some(parseMedicineNames(message)), "diet",
                 Prompt("ask_diet", lang, <<>>))
    [] currentStep = "diet" ->
         LET parsedDiet == parseDiet(message) IN
         IF parsedDiet # Null
           THEN Advance(data, "diet_preference", parsedDiet, "comorbidities",
                        Prompt("ask_comorbidities", lang, <<>>))
           ELSE Reject(data, currentStep, RePrompt("ask_diet", lang, <<>>))
    [] currentStep = "comorbidities" ->
         Advance(data, "comorbidities", Some(parseComorbidities(message)), "hba1c",
                 Prompt("ask_hba1c", lang, <<>>))
    [] currentStep = "hba1c" ->
         \* the value stored is the parser's result, null included
         Advance(data, "last_hba1c", Some(parseHbA1c(message)), "completed",
                 Prompt("complete", lang,
                        IF fullName = <<>> THEN <<"f","r","i","e","n","d">> ELSE fullName))
    [] OTHER ->
         Outcome(data, "language", UnknownStepText, FALSE)

(***************************************************************************)
(* handleOnboarding of unnamed/part_000: the questions are asked in pairs   *)
(* and the answers are read in the switch itself.                           *)
(***************************************************************************)
\* the first index of a set of indices
First(S) == CHOOSE x \in S : \A y \in S : x <= y

\* the last index of a set of indices
Last(S) == CHOOSE x \in S : \A y \in S : y <= x

\* a character is in a character class of the regular expression
InClass(c, class) ==
  CASE class = "[\\s:]" -> IsSpace(c) \/ c = ":"
    [] class = "[a-zA-Z\\s]" -> IsUpper(c) \/ IsLower(c) \/ IsSpace(c)
    [] class = "[\\s,]" -> IsSpace(c) \/ c = ","

\* the offset at which the longest run of characters of a class ends that
\* starts at offset p
RunEnd(s, p, class) ==
  CHOOSE q \in p..Len(s) :
    /\ \A k \in (p + 1)..q : InClass(s[k], class)
    /\ (q = Len(s) \/ ~InClass(s[q + 1], class))

\* (?:name|naam|...|...) in the order the alternatives are tried
NameWords == << <<"n","a","m","e">>, <<"n","a","a","m">>, <<"U0CA8","U0CBE","U0CA8","U0CC1">>, <<"U0CB9","U0CC6","U0CB8","U0CB0","U0CC1">> >>

\* (?:age|umar|...|years?) in the order the alternatives are tried
AgeWords == << <<"a","g","e">>, <<"u","m","a","r">>, <<"U0CB5","U0CAF","U0CB8","U0CCD","U0CB8","U0CC1">>, <<"y","e","a","r","s">>, <<"y","e","a","r">> >>

afterAgeWord(s, c, k) == RunEnd(s, c + Len(AgeWords[k]), "[\\s:]")

ageWordAt(s, c, k) ==
  /\ MatchAt(toLowerCase(s), c, AgeWords[k])
  /\ afterAgeWord(s, c, k) < Len(s)
  /\ IsDigit(s[afterAgeWord(s, c, k) + 1])

\* (?:age|umar|...|years?)[\s:]*(\d+) at offset c: the digits, or null
ageAt(s, c) ==
  LET good == {k \in 1..Len(AgeWords) : ageWordAt(s, c, k)}
  IN  IF good = {} THEN Null
      ELSE LET e == afterAgeWord(s, c, First(good))
           IN  Some(SubSeq(s, e + 1, DigitRunEnd(s, e + 1)))

\* the offsets at which [\s,]+ may end when it starts at offset b
separatorEnds(s, b) ==
  {c \in (b + 1)..RunEnd(s, b, "[\\s,]") : ageAt(s, c) # Null}

\* the offsets at which ([a-zA-Z\s]+) may end when it starts at offset a
nameEnds(s, a) ==
  {b \in (a + 1)..RunEnd(s, a, "[a-zA-Z\\s]") : separatorEnds(s, b) # {}}

\* the offsets at which [\s:]* may end when it starts at offset p
nameStarts(s, p) ==
  {a \in p..RunEnd(s, p, "[\\s:]") : nameEnds(s, a) # {}}

foundAt(s, i) ==
  {k \in 1..Len(NameWords) :
     /\ MatchAt(toLowerCase(s), i, NameWords[k])
     /\ nameStarts(s, i + Len(NameWords[k])) # {}}

\* message.match(/(?:name|naam|..)[\s:]*([a-zA-Z\s]+)[\s,]+(?:age|umar|..|years?)[\s:]*(\d+)/i):
\* the leftmost match, every quantifier as long as the rest allows
nameAgeMatch(s) ==
  LET at == {i \in 0..Len(s) : foundAt(s, i) # {}}
  IN  IF at = {} THEN Null
      ELSE LET i == First(at)
               a == Last(nameStarts(s, i + Len(NameWords[First(foundAt(s, i))])))
               b == Last(nameEnds(s, a))
               c == Last(separatorEnds(s, b))
           IN  Some([name |-> SubSeq(s, a + 1, b), age |-> ageAt(s, c)[1]])

\* text.split(' ')[0]
firstWord(s) ==
  IF \A i \in 1..Len(s) : s[i] # " " THEN s
  ELSE SubSeq(s, 1, First({i \in 1..Len(s) : s[i] = " "}) - 1)

\* message.match(/(\d{n})/): the leftmost n digits in a row, or null
matchDigitRun(s, n) ==
  LET at == {i \in 0..(Len(s) - n) : \A k \in 1..n : IsDigit(s[i + k])}
  IN  IF at = {} THEN Null ELSE Some(SubSeq(s, First(at) + 1, First(at) + n))

\* med.charAt(0).toUpperCase() + med.slice(1)
capitalise(s) == [i \in 1..Len(s) |-> IF i = 1 THEN toUpperChar(s[i]) ELSE s[i]]

\* commonMeds
commonMeds == << <<"m","e","t","f","o","r","m","i","n">>, <<"g","l","i","m","e","p","i","r","i","d","e">>, <<"g","l","y","b","u","r","i","d","e">>, <<"i","n","s","u","l","i","n">>, <<"g","l","a","r","g","i","n","e">>,
                 <<"l","i","s","p","r","o">>, <<"s","i","t","a","g","l","i","p","t","i","n">>, <<"d","a","p","a","g","l","i","f","l","o","z","i","n">> >>

\* text of part_000 that is written in the switch, not taken from MESSAGES
Plain(key) == Prompt(key, "en", <<>>)

\* "Sorry, error. Type 'start' to begin again."
CatchText000 == Plain("sorry_error")

\* let lang = state.data.get('language_pref') || 'en', then the switch
stepSwitch000(currentStep, data, message) ==
  LET lower == toLowerCase(message)
      lang == getOr(data, "language_pref", "en")[1]
      has(word) == includes(lower, word)
  IN
  CASE currentStep = "language" ->
         LET chosen == IF has(<<"1">>) \/ has(<<"e","n","g","l","i","s","h">>) THEN "en"
                       ELSE IF has(<<"2">>) \/ has(<<"h","i","n","d","i">>) \/ has(<<"U0939","U093F","U0902","U0926","U0940">>) THEN "hi"
                       ELSE IF has(<<"3">>) \/ has(<<"k","a","n","n","a","d","a">>) \/ has(<<"U0C95","U0CA8","U0CCD","U0CA8","U0CA1">>) THEN "kn"
                       ELSE lang
         IN  Advance(data, "language_pref", Some(chosen), "name_age",
                     Prompt("ask_name_age", chosen, <<>>))
    [] currentStep = "name_age" ->
         LET match == nameAgeMatch(message) IN
         IF match # Null
           THEN LET fullName == trim(match[1].name) IN
                Outcome([data EXCEPT !["full_name"] = Some(fullName),
                                     !["age"] = Some(parseInt(match[1].age))],
                        "gender_emergency",
                        Prompt("ask_gender_emergency", lang, firstWord(fullName)), TRUE)
           ELSE Reject(data, currentStep, Plain("please_name_age"))
    [] currentStep = "gender_emergency" ->
         LET male == IF has(<<"m","a","l","e">>) \/ has(<<"U092A","U0941","U0930","U0941","U0937">>) THEN Some("Male")
                     ELSE Null
             gender == IF has(<<"f","e","m","a","l","e">>) \/ has(<<"U092E","U0939","U093F","U0932","U093E">>) THEN Some("Female")
                       ELSE male
             phoneMatch == matchDigitRun(message, 10)
         IN  IF gender # Null /\ phoneMatch # Null
               THEN Outcome([data EXCEPT !["gender"] = gender,
                                         !["emergency_contact"] =
                                            Some(<<"+", "9", "1">> \o phoneMatch[1])],
                            "pincode_consent", Prompt("ask_pincode_consent", lang, <<>>), TRUE)
               ELSE Reject(data, currentStep, Plain("please_gender_emergency"))
    [] currentStep = "pincode_consent" ->
         LET pincodeMatch == matchDigitRun(message, 6)
             hasConsent == has(<<"y","e","s">>) \/ has(<<"U0939","U093E","U0902">>) \/ has(<<"h","a">>) \/ has(<<"c","o","n","s","e","n","t">>) \/ has(<<"U0CB9","U0CCC","U0CA6","U0CC1">>)
         IN  IF pincodeMatch # Null /\ hasConsent
               THEN Outcome([data EXCEPT !["pincode"] = pincodeMatch,
                                         !["consent_given"] = Some(TRUE)],
                            "diabetes_type", Prompt("ask_diabetes_type", lang, <<>>), TRUE)
               ELSE Reject(data, currentStep, Plain("please_pincode_consent"))
    [] currentStep = "diabetes_type" ->
         LET diabetesType == IF has(<<"1">>) \/ has(<<"t","y","p","e"," ","1">>) THEN "Type 1"
                             ELSE IF has(<<"2">>) \/ has(<<"t","y","p","e"," ","2">>) THEN "Type 2"
                             ELSE IF has(<<"3">>) \/ has(<<"g","e","s","t","a","t","i","o","n","a","l">>) THEN "Gestational"
                             ELSE "Type 2"
         IN  Advance(data, "diabetes_type", Some(diabetesType), "duration",
                     Prompt("ask_duration", lang, <<>>))
    [] currentStep = "duration" ->
         LET yearMatch == matchDigits(message)
             duration == IF yearMatch # Null THEN parseInt(yearMatch[1]) ELSE 0
         IN  Advance(data, "duration_years", Some(duration), "medication",
                     Prompt("ask_medication", lang, <<>>))
    [] currentStep = "medication" ->
         LET medType == IF has(<<"1">>) \/ has(<<"t","a","b","l","e","t">>) THEN "Tablets"
                        ELSE IF has(<<"2">>) \/ has(<<"i","n","s","u","l","i","n">>) THEN "Insulin"
                        ELSE IF has(<<"3">>) \/ has(<<"b","o","t","h">>) THEN "Both"
                        ELSE IF has(<<"4">>) \/ has(<<"n","o">>) THEN "None"
                        ELSE "Tablets"
         IN  Advance(data, "medication_type", Some(medType), "medicine_names",
                     Prompt("ask_medicine_names", lang, <<>>))
    [] currentStep = "medicine_names" ->
         LET foundMeds == [i \in 1..Len(SelectSeq(commonMeds, has)) |->
                             capitalise(SelectSeq(commonMeds, has)[i])]
         IN  IF Len(foundMeds) > 0 \/ has(<<"n","o"," ","m","e","d","i","c","i","n","e">>) \/ has(<<"U0915","U094B","U0908"," ","U0928","U0939","U0940","U0902">>)
               THEN Advance(data, "current_meds",
                            Some(IF Len(foundMeds) > 0 THEN foundMeds ELSE NoneList),
                            "comorbidities", Prompt("ask_comorbidities", lang, <<>>))
               ELSE Reject(data, currentStep, Plain("please_medicine_names"))
    [] currentStep = "comorbidities" ->
         LET comorbidities ==
                  (IF has(<<"b","p">>) \/ has(<<"b","l","o","o","d"," ","p","r","e","s","s","u","r","e">>) \/ has(<<"h","y","p","e","r","t","e","n","s","i","o","n">>)
                     THEN << <<"H","y","p","e","r","t","e","n","s","i","o","n">> >> ELSE <<>>)
               \o (IF has(<<"c","h","o","l","e","s","t","e","r","o","l">>) THEN << <<"H","i","g","h"," ","C","h","o","l","e","s","t","e","r","o","l">> >> ELSE <<>>)
               \o (IF has(<<"h","e","a","r","t">>) THEN << <<"H","e","a","r","t"," ","D","i","s","e","a","s","e">> >> ELSE <<>>)
               \o (IF has(<<"k","i","d","n","e","y">>) THEN << <<"K","i","d","n","e","y"," ","D","i","s","e","a","s","e">> >> ELSE <<>>)
         IN  Advance(data, "comorbidities",
                     Some(IF Len(comorbidities) > 0 THEN comorbidities ELSE NoneList),
                     "hba1c", Prompt("ask_hba1c", lang, <<>>))
    [] currentStep = "hba1c" ->
         LET hba1cMatch == matchDecimal(message) IN
         Advance(data, "last_hba1c", Some(hba1cMatch), "diet", Prompt("ask_diet", lang, <<>>))
    [] currentStep = "diet" ->
         LET diet == IF has(<<"1">>) \/ has(<<"v","e","g">>) THEN "Veg"
                     ELSE IF has(<<"2">>) \/ has(<<"n","o","n","-","v","e","g">>) THEN "Non-Veg"
                     ELSE IF has(<<"3">>) \/ has(<<"e","g","g">>) THEN "Eggetarian"
                     ELSE "Veg"
         IN  Advance(data, "diet_preference", Some(diet), "completed",
                     Prompt("onboarding_complete", lang, <<>>))
    [] OTHER ->
         \* no case matches: response stays '' and nextStep stays currentStep
         Outcome(data, currentStep, NoText, FALSE)

(***************************************************************************)
(* handleOnboarding of the AI-powered server in server.js (line 2664): the  *)
(* answers are read by parseWithClaude, whose reply is up to the service.   *)
(***************************************************************************)
\* a reply of parseWithClaude in which every field was extracted
FullReply ==
  [name |-> Some(<<"R","a","m">>), age |-> Some(55), gender |-> Some("Male"),
   emergency_contact |-> Some(<<"+","9","1","9","8","7","6","5","4","3","2","1","0">>),
   pincode |-> Some(<<"5","8","5","1","0","4">>), consent |-> Some(TRUE),
   diabetes_type |-> Some("Type 2"), duration_years |-> Some(10),
   medication_type |-> Some("Tablets"),
   medicine_names |-> Some(<< <<"M","e","t","f","o","r","m","i","n">> >>),
   comorbidities |-> Some(<< <<"B","P">> >>), hba1c |-> Some(<<7, <<"5">>>>),
   diet |-> Some("Veg")]

\* what parseWithClaude may return: null (service unavailable, no JSON in the
\* reply, request failed) or the parsed JSON
ClaudeReplies == {Null, Some(FullReply)}

\* the re-prompts written in the switch have a Hindi and an English text
HindiOrEnglish(lang) == IF lang = "hi" THEN "hi" ELSE "en"

\* "Sorry, error occurred. Type 'start' to begin again."
CatchTextAI == Prompt("sorry_error_occurred", "en", <<>>)

\* the steps the switch has a case for
StepsAI == {"language", "basic_info", "location", "diabetes_info", "health_info"}

\* let lang = state.data.get('language_pref') || 'en', then the switch; parsed
\* is the reply of parseWithClaude for the cases that ask for one
stepSwitchAI(currentStep, data, message, parsed) ==
  LET lower == toLowerCase(message)
      lang == getOr(data, "language_pref", "en")[1]
  IN
  CASE currentStep = "language" ->
         LET chosen == IF includes(lower, <<"1">>) \/ includes(lower, <<"e","n","g","l","i","s","h">>) THEN "en"
                       ELSE IF includes(lower, <<"2">>) \/ includes(lower, <<"h","i","n","d","i">>)
                               \/ includes(lower, <<"U0939","U093F","U0902","U0926","U0940">>) THEN "hi"
                       ELSE IF includes(lower, <<"3">>) \/ includes(lower, <<"k","a","n","n","a","d","a">>)
                               \/ includes(lower, <<"U0C95","U0CA8","U0CCD","U0CA8","U0CA1">>) THEN "kn"
                       ELSE lang
         IN  Advance(data, "language_pref", Some(chosen), "basic_info",
                     Prompt("ask_basic", chosen, <<>>))
    [] currentStep = "basic_info" ->
         IF parsed # Null /\ parsed[1].name # Null /\ parsed[1].age # Null
            /\ parsed[1].gender # Null /\ parsed[1].emergency_contact # Null
           THEN Outcome([data EXCEPT !["full_name"] = parsed[1].name,
                                     !["age"] = parsed[1].age,
                                     !["gender"] = parsed[1].gender,
                                     !["emergency_contact"] = parsed[1].emergency_contact],
                        "location", Prompt("ask_location", lang, <<>>), TRUE)
           ELSE Reject(data, currentStep, Prompt("please_basic", HindiOrEnglish(lang), <<>>))
    [] currentStep = "location" ->
         IF parsed # Null /\ parsed[1].pincode # Null /\ parsed[1].consent # Null
           THEN Outcome([data EXCEPT !["pincode"] = parsed[1].pincode,
                                     !["consent_given"] = parsed[1].consent],
                        "diabetes_info", Prompt("ask_diabetes", lang, <<>>), TRUE)
           ELSE Reject(data, currentStep, Prompt("please_location", HindiOrEnglish(lang), <<>>))
    [] currentStep = "diabetes_info" ->
         IF parsed # Null /\ parsed[1].diabetes_type # Null
           THEN Outcome([data EXCEPT
                           !["diabetes_type"] = parsed[1].diabetes_type,
                           !["duration_years"] = IF parsed[1].duration_years = Null THEN Some(0)
                                                 ELSE parsed[1].duration_years,
                           !["medication_type"] = IF parsed[1].medication_type = Null THEN Some("None")
                                                  ELSE parsed[1].medication_type,
                           !["current_meds"] = IF parsed[1].medicine_names = Null THEN Some(NoneList)
                                               ELSE parsed[1].medicine_names,
                           !["diet_preference"] = IF parsed[1].diet = Null THEN Some("Veg")
                                                  ELSE parsed[1].diet],
                        "health_info", Prompt("ask_health", lang, <<>>), TRUE)
           ELSE Reject(data, currentStep, Prompt("please_diabetes", HindiOrEnglish(lang), <<>>))
    [] currentStep = "health_info" ->
         Outcome([data EXCEPT
                    !["comorbidities"] = IF parsed = Null THEN Some(NoneList)
                                         ELSE IF parsed[1].comorbidities = Null THEN Some(NoneList)
                                         ELSE parsed[1].comorbidities,
                    !["last_hba1c"] = Some(IF parsed = Null THEN Null ELSE parsed[1].hba1c)],
                 "completed", Prompt("complete", lang, <<>>), TRUE)
    [] OTHER ->
         \* no case matches: response stays '' and nextStep stays currentStep
         Outcome(data, currentStep, NoText, FALSE)

(***************************************************************************)
(* The server of unnamed/part_001: the parsers and the cases of the switch  *)
(* from 'name' on are those of server.js; the language answer leads to the  *)
(* step choice, and the webhook reads commands before the onboarding gate.  *)
(***************************************************************************)
\* the enum constraints of patientSchema
schemaAccepts(fields) ==
  /\ fields["language_pref"] \in {Null, Some("en"), Some("hi"), Some("kn")}
  /\ fields["gender"] \in {Null, Some("Male"), Some("Female"), Some("Other")}
  /\ fields["diabetes_type"] \in {Null, Some("Type 1"), Some("Type 2"), Some("Gestational")}
  /\ fields["medication_type"] \in {Null, Some("Insulin"), Some("Tablets"), Some("Both"), Some("None")}
  /\ fields["diet_preference"] \in {Null, Some("Veg"), Some("Non-Veg"), Some("Eggetarian")}

\* the document case 'choice' hands to Patient.create for the answer "2"
emergencyProfile(phone, dataMap) ==
  [phone |-> phone,
   fields |-> [EmptyMap EXCEPT
                 !["language_pref"] = dataMap["language_pref"],
                 !["full_name"] = Some(<<"E","m","e","r","g","e","n","c","y"," ","U","s","e","r">>),
                 !["age"] = Some(30),
                 !["gender"] = Some("Not Specified"),
                 !["emergency_contact"] = Some(<<"+","9","1","9","9","9","9","9","9","9","9","9","9">>),
                 !["pincode"] = Some(<<"0","0","0","0","0","0">>),
                 !["consent_given"] = Some(TRUE),
                 !["diabetes_type"] = Some("Not Specified"),
                 !["duration_years"] = Some(0),
                 !["medication_type"] = Some("Not Specified"),
                 !["current_meds"] = Some(<<<<"N","o","t"," ","S","p","e","c","i","f","i","e","d">>>>),
                 !["comorbidities"] = Some(NoneList),
                 !["last_hba1c"] = Some(Null),
                 !["diet_preference"] = Some("Not Specified")],
   onboarding_completed |-> TRUE,
   onboarding_step |-> "emergency_skip"]

\* the steps whose cases part_001 has of its own
Steps001 == {"language", "choice"}

\* the cases 'language' and 'choice' of the switch of handleOnboarding in
\* part_001; the answer "2" at step choice leaves the switch for
\* Patient.create, marked by the step "emergency_skip"
stepSwitch001(currentStep, data, message) ==
  LET lang == getOr(data, "language_pref", "en")[1] IN
  CASE currentStep = "language" ->
         LET parsedLang == parseLanguage(message) IN
         IF parsedLang # Null
           THEN Advance(data, "language_pref", parsedLang, "choice",
                        Prompt("choice", parsedLang[1], <<>>))
           ELSE Reject(data, currentStep, RePrompt("welcome", lang, <<>>))
    [] currentStep = "choice" ->
         LET choice == trim(message) IN
         IF choice = <<"1">>
           THEN Outcome(data, "name", Prompt("ask_name", lang, <<>>), TRUE)
         ELSE IF choice = <<"2">>
           THEN Outcome(data, "emergency_skip", Prompt("emergency_ready", lang, <<>>), TRUE)
         ELSE Reject(data, currentStep, RePrompt("choice", lang, <<>>))

(***************************************************************************)
(* The medical path                                                        *)
(***************************************************************************)
\* msg.match(/(\d{2,3})/): the leftmost two digits in a row, and the digit
\* after them when there is one
glucoseMatch(msg) ==
  LET at == {i \in 0..(Len(msg) - 2) : IsDigit(msg[i + 1]) /\ IsDigit(msg[i + 2])}
  IN  IF at = {} THEN Null
      ELSE LET a == First(at)
               third == IF a + 3 <= Len(msg) THEN IsDigit(msg[a + 3]) ELSE FALSE
           IN  Some(SubSeq(msg, a + 1, IF third THEN a + 3 ELSE a + 2))

\* extractGlucose(msg).hasReading
hasReading(msg) ==
  LET match == glucoseMatch(msg) IN
  IF match = Null THEN FALSE
  ELSE ~(parseInt(match[1]) < 40 \/ parseInt(match[1]) > 500)

\* lower.match(/fasting|empty|morning/) ? 'fasting' :
\* lower.match(/after|post|lunch|dinner/) ? 'postprandial' : 'random'
readingType(msg) ==
  LET lower == toLowerCase(msg) IN
  IF \/ includes(lower, <<"f","a","s","t","i","n","g">>)
     \/ includes(lower, <<"e","m","p","t","y">>)
     \/ includes(lower, <<"m","o","r","n","i","n","g">>)
    THEN "fasting"
  ELSE IF \/ includes(lower, <<"a","f","t","e","r">>)
          \/ includes(lower, <<"p","o","s","t">>)
          \/ includes(lower, <<"l","u","n","c","h">>)
          \/ includes(lower, <<"d","i","n","n","e","r">>)
    THEN "postprandial"
  ELSE "random"

\* the words extractGlucose collects as symptoms
SymptomWords == { <<"t","i","r","e","d">>, <<"d","i","z","z","y">>,
                  <<"t","h","i","r","s","t","y">>, <<"b","l","u","r">>,
                  <<"s","w","e","a","t">>, <<"w","e","a","k">> }

\* extractGlucose(msg) when hasReading is true; symptoms as a set
extractGlucose(msg) ==
  [reading |-> parseInt(glucoseMatch(msg)[1]),
   readingType |-> readingType(msg),
   symptoms |-> {w \in SymptomWords : includes(toLowerCase(msg), w)}]

\* the symptoms assessUrgency takes as an emergency
EmergencySymptoms == { <<"u","n","c","o","n","s","c","i","o","u","s">>,
                       <<"c","o","n","f","u","s","i","o","n">>,
                       <<"s","e","i","z","u","r","e">> }

\* assessUrgency(glucose, symptoms)
assessUrgency(glucose, symptoms) ==
  IF glucose < 54 \/ glucose > 400 THEN "EMERGENCY"
  ELSE IF \E w \in symptoms : toLowerCase(w) \in EmergencySymptoms THEN "EMERGENCY"
  ELSE IF glucose < 70 \/ glucose > 250 THEN "URGENT"
  ELSE IF glucose > 180 \/ glucose < 80 THEN "ROUTINE"
  ELSE "MONITORING"

ReadingKinds == {"fasting", "postprandial", "random"}

THRESHOLDS ==
  [fasting |-> [critical_low |-> 70, critical_high |-> 250],
   postprandial |-> [critical_low |-> 70, critical_high |-> 300],
   random |-> [critical_low |-> 70, critical_high |-> 250]]

\* what checkCritical(reading, type, phone) returns
checkCritical(reading, type) ==
  LET t == IF type \in DOMAIN THRESHOLDS THEN THRESHOLDS[type] ELSE THRESHOLDS.random IN
  IF reading < 54 \/ reading > 400 THEN [critical |-> TRUE, urgency |-> "EMERGENCY"]
  ELSE IF reading < t.critical_low \/ reading > t.critical_high
    THEN [critical |-> TRUE, urgency |-> "URGENT"]
  ELSE [critical |-> FALSE, urgency |-> "MONITORING"]

(***************************************************************************)
(* State                                                                   *)
(***************************************************************************)
\* msg.from of the users that write to the bot
Users == {"919876543210"}

\* the message bodies the users send
Inputs == { <<>>, <<"2">>, <<"4">>,
            <<"9","8","7","6","5","4","3","2","1","0">>,
            <<"5","6","0","0","0","1">> }

\* webhook requests that may be in flight at once; the requests are node's
\* promises, which have no identity: a new one takes the first free slot
MaxInFlight == 2

Slots == 1..MaxInFlight

\* store operations that may fail in one behaviour
MaxFaults == 1

\* sessions created before the model stops creating more
MaxSessions == 3

VARIABLES
  Patient,          \* the Patient collection: phone -> Null or Some(document)
  OnboardingState,  \* the OnboardingState collection: phone -> Null or Some(document)
  nextId,           \* the _id the next created OnboardingState document gets
  req,              \* slot -> the webhook request running in it
  faults,           \* store operations that have failed so far
  deployed,         \* the file whose handleOnboarding the server runs
  routed,           \* history: the users whose messages reached handleOnboarding
  last,             \* history: phone -> the message delivered last and what its
                    \*          deliveries did, or Null
  script,           \* history: phone -> the answers sent to server.js since first
                    \*          contact while each one was accepted and nothing
                    \*          failed, or Null
  records,          \* phone -> the collections among Conversation, GlucoseReading
                    \*          and Triage that hold a document of the user
  sent,             \* history: phone -> the text sent last to the user, or Null
  userState,        \* index.js: phone -> Null or Some(entry of userState)
  agreed,           \* history, index.js: the users who replied YES to the consent
                    \*          question
  Conversation,     \* the Conversation collection: its documents in insertion order
  GlucoseReading,   \* the GlucoseReading collection: the set of its documents
  Triage,           \* the Triage collection: the set of its documents
  physicianInbox,   \* the set of the alerts that reached the physician number
  call,             \* slot -> the medical-query handling running in it
  exchanges         \* history: the messages that reached the medical path, in
                    \*          arrival order, each with whether its exchange was
                    \*          saved by conversation.save()

\* the state of index.js
botVars == <<userState, agreed>>

\* the collections of the medical path, document by document
medicalVars == <<Conversation, GlucoseReading, Triage, physicianInbox, call, exchanges>>

vars == <<Patient, OnboardingState, nextId, req, faults, deployed, routed, last, script,
          records, sent, botVars, medicalVars>>

\* a slot with no request in it
Idle == [pc |-> "idle", from |-> "", text |-> <<>>, loaded |-> Null,
         data |-> EmptyMap, nextStep |-> "", response |-> NoText,
         completed |-> FALSE, route |-> "", failed |-> FALSE, solo |-> TRUE,
         retry |-> FALSE, ops |-> <<>>, parsed |-> Null]

NoHistory == [u \in Users |-> Null]

\* index.js has seen no user
BotAtRest ==
  /\ userState = [u \in Users |-> Null]
  /\ agreed = {}

\* a slot of the medical path with no handling in it
NoCall == [pc |-> "idle"]

\* the collections of the medical path are empty and nothing is handled
MedicalAtRest ==
  /\ Conversation = <<>>
  /\ GlucoseReading = {}
  /\ Triage = {}
  /\ physicianInbox = {}
  /\ call = [h \in Slots |-> NoCall]
  /\ exchanges = <<>>

\* no document in the collections of the medical path
NoRecords == [u \in Users |-> {}]

Init ==
  /\ Patient = [u \in Users |-> Null]
  /\ OnboardingState = [u \in Users |-> Null]
  /\ nextId = 1
  /\ req = [h \in Slots |-> Idle]
  /\ faults = 0
  /\ deployed = "server.js"
  /\ routed = {}
  /\ last = NoHistory
  /\ script = NoHistory
  /\ records = NoRecords
  /\ sent = NoHistory
  /\ BotAtRest
  /\ MedicalAtRest

InFlight(u) == {h \in Slots : req[h].pc # "idle" /\ req[h].from = u}

\* no request is being handled
Quiet == \A h \in Slots : req[h].pc = "idle"

\* a store operation may fail while the fault budget lasts
MayFail == faults < MaxFaults

\* where the user is: the step of the session, "completed" once the profile
\* is complete and the session gone, "none" before first contact
Position(u) ==
  IF OnboardingState[u] # Null THEN OnboardingState[u][1].currentStep
  ELSE IF Patient[u] # Null /\ Patient[u][1].onboarding_completed THEN "completed"
  ELSE "none"

\* history: the answer just delivered no longer counts as part of a clean run
Spoil(u) == [script EXCEPT ![u] = Null]

(***************************************************************************)
(* app.post('/webhook'): a text message arrives                            *)
(***************************************************************************)
\* the request the webhook starts for msg.from = u, msg.text.body = m
Arrival(h, u, m, retry) ==
  [k \in Slots |->
     IF k = h
       THEN [Idle EXCEPT !.pc = IF deployed = "part_001" THEN "command"
                                ELSE "checkOnboardingStatus",
                         !.from = u, !.text = m,
                         !.solo = (InFlight(u) = {}), !.retry = retry]
     ELSE IF k \in InFlight(u) THEN [req[k] EXCEPT !.solo = FALSE]
     ELSE req[k]]

Webhook(h, u, m) ==
  /\ req[h].pc = "idle"
  /\ \A k \in 1..(h - 1) : req[k].pc # "idle"
  /\ req' = Arrival(h, u, m, FALSE)
  /\ last' = [last EXCEPT ![u] =
                IF InFlight(u) = {}
                  THEN Some([text |-> m, step |-> Position(u), writes |-> 0,
                             again |-> FALSE, profile |-> Null, deleted |-> FALSE])
                  ELSE Null]
  /\ script' = [script EXCEPT ![u] =
                  IF InFlight(u) # {} \/ deployed # "server.js" THEN Null
                  ELSE IF Position(u) = "none" /\ Patient[u] = Null THEN Some(<<>>)
                  ELSE IF script[u] = Null THEN Null
                  ELSE Some(Append(script[u][1], m))]
  /\ UNCHANGED <<Patient, OnboardingState, nextId, faults, routed, deployed, botVars, medicalVars, records, sent>>

\* WhatsApp delivers the message of the last webhook call a second time; the
\* handler reads no message id, so the call is handled like the first
Redeliver(h, u) ==
  /\ req[h].pc = "idle"
  /\ \A k \in 1..(h - 1) : req[k].pc # "idle"
  /\ last[u] # Null
  /\ ~last[u][1].again
  /\ req' = Arrival(h, u, last[u][1].text, TRUE)
  /\ last' = [last EXCEPT ![u] = Some([last[u][1] EXCEPT !.again = TRUE])]
  /\ script' = Spoil(u)
  /\ UNCHANGED <<Patient, OnboardingState, nextId, faults, routed, deployed, botVars, medicalVars, records, sent>>

\* a gate that sends every message to handleOnboarding
gateAlwaysOnboards(patient) == TRUE

\* checkOnboardingStatus(phone)
needsOnboarding(patient) ==
  IF patient = Null THEN TRUE ELSE ~patient[1].onboarding_completed

\* await checkOnboardingStatus(from): Patient.findOne; a rejection reaches the
\* catch of the webhook, which only logs it
CheckOnboardingStatus(h) ==
  /\ req[h].pc = "checkOnboardingStatus"
  /\ LET u == req[h].from IN
     \/ /\ needsOnboarding(Patient[u])
        /\ req' = [req EXCEPT ![h].pc = "findOne", ![h].route = "onboarding"]
        /\ routed' = routed \cup {u}
        /\ UNCHANGED <<faults, script>>
     \/ /\ ~needsOnboarding(Patient[u])
        /\ req' = [req EXCEPT ![h].pc = "analyze", ![h].route = "medical",
                              ![h].response = MedicalText]
        /\ script' = Spoil(u)
        /\ UNCHANGED <<faults, routed>>
     \/ /\ MayFail
        /\ faults' = faults + 1
        /\ req' = [req EXCEPT ![h] = Idle]
        /\ script' = Spoil(u)
        /\ UNCHANGED routed
  /\ UNCHANGED <<Patient, OnboardingState, nextId, last, deployed, botVars, medicalVars, records, sent>>

\* history: the store call the request in slot h was waiting for is made
Logged(h, after) == [after EXCEPT ![h].ops = Append(req[h].ops, req[h].pc)]

\* the catch block of handleOnboarding returning no text
CaughtWithoutReply(r) ==
  [r EXCEPT !.pc = "send", !.response = NoText,
            !.completed = FALSE, !.failed = TRUE]

\* the catch block of handleOnboarding
Caught(r) ==
  [r EXCEPT !.pc = "send",
            !.response = IF deployed = "part_000" THEN CatchText000
                         ELSE IF deployed = "ai" THEN CatchTextAI ELSE CatchText,
            !.completed = FALSE, !.failed = TRUE]

\* the switch of the handleOnboarding that is deployed
handlerSwitch(currentStep, data, message) ==
  IF deployed = "part_000" THEN stepSwitch000(currentStep, data, message)
  ELSE IF deployed = "part_001" /\ currentStep \in Steps001
    THEN stepSwitch001(currentStep, data, message)
  ELSE stepSwitch(currentStep, data, message)

\* the pass through the switch ends in savePatientData: in server.js after the
\* switch when nextStep is 'completed', in part_000 inside case 'diet', in the
\* AI-powered server inside case 'health_info'
callsSavePatientData(currentStep, nextStep) ==
  IF deployed = "part_000" THEN currentStep = "diet"
  ELSE IF deployed = "ai" THEN currentStep = "health_info"
  ELSE nextStep = "completed"

\* the replies parseWithClaude may give while the switch runs; the other
\* servers do not ask it
RepliesFor(currentStep) ==
  IF deployed = "ai" /\ currentStep \in StepsAI \ {"language"} THEN ClaudeReplies ELSE {Null}

\* the switch of the deployed handler, given the reply of parseWithClaude
switchOutcome(currentStep, data, message, parsed) ==
  IF deployed = "ai" THEN stepSwitchAI(currentStep, data, message, parsed)
  ELSE handlerSwitch(currentStep, data, message)

\* await OnboardingState.findOne({ phone }), then the switch up to its first await
FindOne(h) ==
  /\ req[h].pc = "findOne"
  /\ LET u == req[h].from
         state == OnboardingState[u]
     IN
     \/ /\ state = Null
        /\ req' = Logged(h, [req EXCEPT ![h].pc = "create"])
        /\ UNCHANGED <<faults, script>>
     \/ /\ state # Null
        /\ \E parsed \in RepliesFor(state[1].currentStep) :
           \E out \in { switchOutcome(state[1].currentStep, state[1].data, req[h].text, parsed) } :
           /\ req' = Logged(h, [req EXCEPT ![h].pc =
                                   IF callsSavePatientData(state[1].currentStep, out.nextStep)
                                     THEN "findOneAndUpdate"
                                   ELSE IF out.nextStep = "emergency_skip"
                                     THEN "patientCreate" ELSE "save",
                                 ![h].loaded = state,
                                 ![h].parsed = parsed,
                                 ![h].data = out.data,
                                 ![h].nextStep = out.nextStep,
                                 ![h].response = out.response])
           /\ script' = IF out.accepted THEN script ELSE Spoil(u)
        /\ UNCHANGED faults
     \/ /\ MayFail
        /\ faults' = faults + 1
        /\ req' = Logged(h, [req EXCEPT ![h] = Caught(req[h])])
        /\ script' = Spoil(u)
  /\ UNCHANGED <<Patient, OnboardingState, nextId, routed, last, deployed, botVars, medicalVars, records, sent>>

\* a session that consumed the first message as the language answer
newSessionPastLanguage(id) ==
  [id |-> id, currentStep |-> "name",
   data |-> [EmptyMap EXCEPT !["language_pref"] = Some("hi")]]

\* the document { phone, currentStep: 'language', data: new Map() }
newSession(id) == [id |-> id, currentStep |-> "language", data |-> EmptyMap]

\* await OnboardingState.create({ phone, currentStep: 'language', data: new Map() });
\* phone is unique, so a second document for it is a duplicate-key error
Create(h) ==
  /\ req[h].pc = "create"
  /\ LET u == req[h].from IN
     \/ /\ OnboardingState[u] = Null
        /\ nextId <= MaxSessions
        /\ OnboardingState' = [OnboardingState EXCEPT ![u] =
               Some(newSession(nextId))]
        /\ nextId' = nextId + 1
        /\ req' = Logged(h, [req EXCEPT ![h].pc = "send",
                              ![h].response = Prompt("welcome", "en", <<>>),
                              ![h].completed = FALSE])
        /\ UNCHANGED <<faults, script>>
     \/ /\ OnboardingState[u] # Null
        /\ req' = Logged(h, [req EXCEPT ![h] = Caught(req[h])])
        /\ script' = Spoil(u)
        /\ UNCHANGED <<OnboardingState, nextId, faults>>
     \/ /\ MayFail
        /\ faults' = faults + 1
        /\ req' = Logged(h, [req EXCEPT ![h] = Caught(req[h])])
        /\ script' = Spoil(u)
        /\ UNCHANGED <<OnboardingState, nextId>>
  /\ UNCHANGED <<Patient, routed, last, deployed, botVars, medicalVars, records, sent>>

\* the patientData object of savePatientData in server.js
patientDataWithDefaults(phone, dataMap) ==
  [phone |-> phone,
   fields |-> [dataMap EXCEPT
                 !["language_pref"] = getOr(dataMap, "language_pref", "en"),
                 !["duration_years"] = getOr(dataMap, "duration_years", 0),
                 !["current_meds"] = getOr(dataMap, "current_meds", NoneList),
                 !["comorbidities"] = getOr(dataMap, "comorbidities", NoneList)],
   onboarding_completed |-> TRUE,
   onboarding_step |-> "completed"]

\* the patientData object of savePatientData in part_000
patientData000(phone, dataMap) ==
  [phone |-> phone, fields |-> dataMap,
   onboarding_completed |-> TRUE, onboarding_step |-> "completed"]

patientData(phone, dataMap) ==
  IF deployed = "part_000" THEN patientData000(phone, dataMap)
  ELSE patientDataWithDefaults(phone, dataMap)

\* Patient.findOneAndUpdate({ phone }, update, { upsert: true, new: true }):
\* the keys the update defines are set, the others keep what the document had
upsertPatient(old, update) ==
  IF old = Null THEN Some(update)
  ELSE Some([update EXCEPT !.fields =
               [f \in Fields |-> IF update.fields[f] # Null
                                   THEN update.fields[f] ELSE old[1].fields[f]]])

\* what handleOnboarding does after savePatientData, whose catch swallows
\* every error: server.js returns { response, completed: true }; part_000
\* and the AI-powered server go on to state.currentStep = nextStep and
\* state.save()
Returned(r) ==
  IF deployed \in {"part_000", "ai"} THEN [r EXCEPT !.pc = "save"]
  ELSE [r EXCEPT !.pc = "send", !.completed = TRUE]

\* savePatientData: await Patient.findOneAndUpdate(...)
FindOneAndUpdate(h) ==
  /\ req[h].pc = "findOneAndUpdate"
  /\ LET u == req[h].from
         written == upsertPatient(Patient[u], patientData(u, req[h].data))
     IN
     \/ /\ Patient' = [Patient EXCEPT ![u] = written]
        /\ req' = Logged(h, [req EXCEPT ![h].pc = "findOneAndDelete"])
        /\ last' = [last EXCEPT ![u] =
                      IF last[u] = Null THEN Null
                      ELSE Some([last[u][1] EXCEPT
                                   !.writes = @ + 1,
                                   !.profile = IF req[h].retry THEN @ ELSE written])]
        /\ UNCHANGED <<faults, script>>
     \/ /\ MayFail
        /\ faults' = faults + 1
        /\ req' = Logged(h, [req EXCEPT ![h] = [Returned(req[h]) EXCEPT !.failed = TRUE]])
        /\ script' = Spoil(u)
        /\ UNCHANGED <<Patient, last>>
  /\ UNCHANGED <<OnboardingState, nextId, routed, deployed, botVars, medicalVars, records, sent>>

\* a filter that matches the document of every phone
anyPhone(phone, key) == TRUE

\* the filter { phone }: the document stored under key matches when its phone
\* is the phone asked for
phoneFilter(phone, key) == key = phone

\* the collection after findOneAndDelete({ phone })
deleteWhere(collection, phone) ==
  [key \in DOMAIN collection |->
     IF phoneFilter(phone, key) THEN Null ELSE collection[key]]

\* savePatientData: await OnboardingState.findOneAndDelete({ phone })
FindOneAndDelete(h) ==
  /\ req[h].pc = "findOneAndDelete"
  /\ LET u == req[h].from IN
     \/ /\ OnboardingState' = deleteWhere(OnboardingState, u)
        /\ req' = Logged(h, [req EXCEPT ![h] = Returned(req[h])])
        /\ last' = [last EXCEPT ![u] =
                      IF last[u] = Null \/ req[h].retry THEN @
                      ELSE Some([last[u][1] EXCEPT !.deleted = TRUE])]
        /\ UNCHANGED <<faults, script>>
     \/ /\ MayFail
        /\ faults' = faults + 1
        /\ req' = Logged(h, [req EXCEPT ![h] = [Returned(req[h]) EXCEPT !.failed = TRUE]])
        /\ script' = Spoil(u)
        /\ UNCHANGED <<OnboardingState, last>>
  /\ UNCHANGED <<Patient, nextId, routed, deployed, botVars, medicalVars, records, sent>>

\* state.save() sends the paths modified since the document was loaded:
\* currentStep when it changed, and the keys of data whose value changed
savedDocument(stored, r) ==
  [id |-> stored.id,
   currentStep |-> IF r.nextStep # r.loaded[1].currentStep
                     THEN r.nextStep ELSE stored.currentStep,
   data |-> [f \in Fields |-> IF r.data[f] # r.loaded[1].data[f]
                                THEN r.data[f] ELSE stored.data[f]]]

\* the collection still holds the document that was loaded
isStored(loaded, stored) ==
  IF stored = Null THEN FALSE ELSE stored[1].id = loaded[1].id

\* state.currentStep = nextStep; await state.save(): the update is by _id, and
\* a document that is gone is a DocumentNotFoundError; then
\* return { response, completed: nextStep === 'completed' }
Save(h) ==
  /\ req[h].pc = "save"
  /\ LET u == req[h].from
         stored == OnboardingState[u]
     IN
     \/ /\ isStored(req[h].loaded, stored)
        /\ OnboardingState' = [OnboardingState EXCEPT ![u] =
                                 Some(savedDocument(stored[1], req[h]))]
        /\ req' = Logged(h, [req EXCEPT ![h].pc = "send",
                              ![h].completed = (req[h].nextStep = "completed")])
        /\ UNCHANGED <<faults, script>>
     \/ /\ ~isStored(req[h].loaded, stored)
        /\ req' = Logged(h, [req EXCEPT ![h] = Caught(req[h])])
        /\ script' = Spoil(u)
        /\ UNCHANGED <<OnboardingState, faults>>
     \/ /\ MayFail
        /\ faults' = faults + 1
        /\ req' = Logged(h, [req EXCEPT ![h] = Caught(req[h])])
        /\ script' = Spoil(u)
        /\ UNCHANGED OnboardingState
  /\ UNCHANGED <<Patient, nextId, routed, last, deployed, botVars, medicalVars, records, sent>>

\* the document the command bypasssaad upserts
testUserProfile(phone) ==
  [phone |-> phone,
   fields |-> [EmptyMap EXCEPT
                 !["language_pref"] = Some("en"),
                 !["full_name"] = Some(<<"T","e","s","t"," ","U","s","e","r">>),
                 !["age"] = Some(30),
                 !["gender"] = Some("Male"),
                 !["emergency_contact"] = Some(<<"+","9","1","9","9","9","9","9","9","9","9","9","9">>),
                 !["pincode"] = Some(<<"5","6","0","0","0","1">>),
                 !["consent_given"] = Some(TRUE),
                 !["diabetes_type"] = Some("Type 2"),
                 !["duration_years"] = Some(5),
                 !["medication_type"] = Some("Tablets"),
                 !["current_meds"] = Some(<<<<"M","e","t","f","o","r","m","i","n">>>>),
                 !["comorbidities"] = Some(NoneList),
                 !["last_hba1c"] = Some(Null),
                 !["diet_preference"] = Some("Veg")],
   onboarding_completed |-> TRUE,
   onboarding_step |-> "completed"]

\* the first language switch commands of the webhook: the language, or Null
switchCommand(lowerText) ==
  IF lowerText = <<"h","i","n","d","i">> \/ lowerText = <<"U0939","U093F","U0902","U0926","U0940">> \/ lowerText = <<"s","w","i","t","c","h"," ","t","o"," ","h","i","n","d","i">> THEN Some("hi")
  ELSE IF lowerText = <<"k","a","n","n","a","d","a">> \/ lowerText = <<"U0C95","U0CA8","U0CCD","U0CA8","U0CA1">> \/ lowerText = <<"s","w","i","t","c","h"," ","t","o"," ","k","a","n","n","a","d","a">> THEN Some("kn")
  ELSE IF lowerText = <<"e","n","g","l","i","s","h">> \/ lowerText = <<"s","w","i","t","c","h"," ","t","o"," ","e","n","g","l","i","s","h">> THEN Some("en")
  ELSE Null

\* the manual language switch commands further down, which act only for a
\* user who has a Patient document
manualSwitchCommand(lowerText) ==
  IF lowerText = <<"e","n","g","l","i","s","h">> \/ lowerText = <<"e","n","g">> THEN Some("en")
  ELSE IF lowerText = <<"h","i","n","d","i">> \/ lowerText = <<"U0939","U093F","U0902","U0926","U0940">> \/ lowerText = <<"h","i","n">> THEN Some("hi")
  ELSE IF lowerText = <<"k","a","n","n","a","d","a">> \/ lowerText = <<"U0C95","U0CA8","U0CCD","U0CA8","U0CA1">> \/ lowerText = <<"k","a","n">> THEN Some("kn")
  ELSE Null

\* Patient.findOneAndUpdate({ phone }, { language_pref }) without upsert
withLanguage(patient, lang) ==
  IF patient = Null THEN Null
  ELSE Some([patient[1] EXCEPT !.fields["language_pref"] = Some(lang)])

\* what a command does: the documents after it and the text it sends;
\* handled is FALSE when the text is no command and the webhook goes on to
\* the onboarding gate
Effect(handled, patient, session, recs, response) ==
  [handled |-> handled, patient |-> patient, session |-> session,
   records |-> recs, response |-> response]

commandEffect(phone, lowerText, patient, session, recs) ==
  LET registered == IF patient = Null THEN FALSE ELSE patient[1].onboarding_completed
      lang == IF patient = Null THEN "en" ELSE getOr(patient[1].fields, "language_pref", "en")[1]
  IN
  IF switchCommand(lowerText) # Null
    THEN Effect(TRUE, withLanguage(patient, switchCommand(lowerText)[1]), session, recs,
                Prompt("language_switched", switchCommand(lowerText)[1], <<>>))
  ELSE IF lowerText = <<"b","y","p","a","s","s","s","a","a","d">>
    THEN IF registered
           THEN Effect(TRUE, patient, session, recs, Prompt("already_bypassed", "en", <<>>))
           ELSE Effect(TRUE, upsertPatient(patient, testUserProfile(phone)), Null, recs,
                       Prompt("bypass_activated", "en", <<>>))
  ELSE IF lowerText = <<"r","e","s","e","t">>
    THEN Effect(TRUE, Null, Null, recs \ {"GlucoseReading", "Conversation", "Triage"},
                Prompt("reset_complete_welcome", "en", <<>>))
  ELSE IF manualSwitchCommand(lowerText) # Null /\ patient # Null
    THEN Effect(TRUE, withLanguage(patient, manualSwitchCommand(lowerText)[1]), session, recs,
                Prompt("language_switched", manualSwitchCommand(lowerText)[1], <<>>))
  ELSE IF lowerText = <<"s","t","a","r","t">> \/ lowerText = <<"b","e","g","i","n">>
    THEN IF registered
           THEN Effect(TRUE, patient, session, recs, Prompt("welcome_back", "en", <<>>))
           ELSE Effect(TRUE, patient, session, recs, Prompt("welcome", "en", <<>>))
  ELSE IF lowerText = <<"s","e","t","u","p">>
    THEN IF patient = Null
           THEN Effect(TRUE, patient, session, recs, Prompt("welcome", "en", <<>>))
         ELSE IF patient[1].onboarding_step = "emergency_skip"
           THEN Effect(TRUE, Null, Null, recs, Prompt("complete_profile_welcome", lang, <<>>))
         ELSE IF registered
           THEN Effect(TRUE, patient, session, recs, Prompt("already_complete", "en", <<>>))
         ELSE Effect(TRUE, patient, session, recs, Prompt("continue_registration", "en", <<>>))
  ELSE Effect(FALSE, patient, session, recs, NoText)

\* what a command leaves when one of its store calls rejects.  reset has a
\* catch of its own and has made the deletions before the call that rejected;
\* bypasssaad has one too and has written the profile when the deletion of
\* the session rejects; the other commands reach the catch of the webhook,
\* which only logs, with nothing written
ResetCollections == <<"Patient", "OnboardingState", "GlucoseReading", "Conversation", "Triage">>

commandFailures(phone, lowerText, patient, session, recs) ==
  IF lowerText = <<"r","e","s","e","t">>
    THEN { Effect(TRUE,
                  IF k > 1 THEN Null ELSE patient,
                  IF k > 2 THEN Null ELSE session,
                  recs \ {ResetCollections[i] : i \in 3..(k - 1)},
                  Prompt("reset_failed", "en", <<>>)) : k \in 1..Len(ResetCollections) }
  ELSE IF lowerText = <<"b","y","p","a","s","s","s","a","a","d">>
    THEN { Effect(TRUE, patient, session, recs,
                  Prompt("bypass_failed_error_message", "en", <<>>)) }
         \cup (IF patient # Null /\ patient[1].onboarding_completed THEN {}
               ELSE { Effect(TRUE, upsertPatient(patient, testUserProfile(phone)), session,
                             recs, Prompt("bypass_failed_error_message", "en", <<>>)) })
  ELSE { Effect(TRUE, patient, session, recs, NoText) }

\* the commands of the webhook of part_001, read before the onboarding gate;
\* the store calls of one command are taken as one step
Command(h) ==
  /\ req[h].pc = "command"
  /\ \E u \in {req[h].from}, lowerText \in {trim(toLowerCase(req[h].text))} :
     \E effect \in {commandEffect(u, lowerText, Patient[u], OnboardingState[u], records[u])} :
     \/ /\ ~effect.handled
        /\ req' = [req EXCEPT ![h].pc = "checkOnboardingStatus"]
        /\ UNCHANGED <<Patient, OnboardingState, records, faults, script>>
     \/ /\ effect.handled
        /\ Patient' = [Patient EXCEPT ![u] = effect.patient]
        /\ OnboardingState' = [OnboardingState EXCEPT ![u] = effect.session]
        /\ records' = [records EXCEPT ![u] = effect.records]
        /\ req' = [req EXCEPT ![h].pc = "send", ![h].route = "command",
                              ![h].response = effect.response]
        /\ script' = Spoil(u)
        /\ UNCHANGED faults
     \/ /\ effect.handled
        /\ MayFail
        /\ faults' = faults + 1
        /\ \E left \in commandFailures(u, lowerText, Patient[u], OnboardingState[u], records[u]) :
             /\ Patient' = [Patient EXCEPT ![u] = left.patient]
             /\ OnboardingState' = [OnboardingState EXCEPT ![u] = left.session]
             /\ records' = [records EXCEPT ![u] = left.records]
             /\ req' = [req EXCEPT ![h] =
                          IF left.response = NoText THEN Idle
                          ELSE [req[h] EXCEPT !.pc = "send", !.route = "command",
                                              !.response = left.response, !.failed = TRUE]]
        /\ script' = Spoil(u)
  /\ UNCHANGED <<nextId, routed, last, deployed, botVars, medicalVars, sent>>

\* case 'choice', answer "2": await Patient.create({...}), which validates the
\* document against patientSchema and needs the phone to be new, then
\* await OnboardingState.findOneAndDelete({ phone }) and
\* return { response: MESSAGES.emergency_ready[lang], completed: true };
\* a rejection reaches the catch of handleOnboarding
PatientCreate(h) ==
  /\ req[h].pc = "patientCreate"
  /\ LET u == req[h].from
         profile == emergencyProfile(u, req[h].data)
         valid == schemaAccepts(profile.fields) /\ Patient[u] = Null
     IN
     \/ /\ valid
        /\ Patient' = [Patient EXCEPT ![u] = Some(profile)]
        /\ OnboardingState' = [OnboardingState EXCEPT ![u] = Null]
        /\ req' = Logged(h, [req EXCEPT ![h].pc = "send", ![h].completed = TRUE])
        /\ UNCHANGED <<faults, script>>
     \/ /\ ~valid
        /\ req' = Logged(h, [req EXCEPT ![h] = Caught(req[h])])
        /\ script' = Spoil(u)
        /\ UNCHANGED <<Patient, OnboardingState, faults>>
     \/ /\ MayFail
        /\ faults' = faults + 1
        /\ req' = Logged(h, [req EXCEPT ![h] = Caught(req[h])])
        /\ script' = Spoil(u)
        /\ UNCHANGED <<Patient, OnboardingState>>
  /\ UNCHANGED <<nextId, routed, last, deployed, botVars, medicalVars, records, sent>>

\* "Error. Type 'start' to restart.", sent when the response is empty
EmptyResponseText == Prompt("error_restart", "en", <<>>)

\* the text the webhook sends for a request that is about to send
Outbound(r) == IF r.response.key = "" THEN EmptyResponseText ELSE r.response

\* the text the webhook hands to sendWhatsAppMessage: server.js replaces an
\* empty response, part_000 and the AI-powered server send the response as it is
Sent(r) == IF deployed \in {"part_000", "ai"} THEN r.response ELSE Outbound(r)

\* const reply = await analyzeWithClaudeRAG(from, text, patient): with Claude
\* available the conversation of the user is loaded, and created when there
\* is none; without it the fallback text is returned
AnalyzeWithClaudeRAG(h) ==
  /\ req[h].pc = "analyze"
  /\ \E isClaudeAvailable \in BOOLEAN :
       records' = [records EXCEPT ![req[h].from] =
                     IF isClaudeAvailable THEN @ \cup {"Conversation"} ELSE @]
  /\ req' = [req EXCEPT ![h].pc = "send"]
  /\ UNCHANGED <<Patient, OnboardingState, nextId, faults, routed, last, script, deployed, botVars, medicalVars, sent>>

\* the documents the webhook creates after the reply of the medical path:
\* createTriageRecord and GlucoseReading.create when the text has a reading
readingRecords(r) ==
  IF r.route = "medical" /\ hasReading(r.text) THEN {"Triage", "GlucoseReading"} ELSE {}

\* await sendWhatsAppMessage(from, response), and on the medical path the
\* processing of the glucose reading; the request ends
Send(h) ==
  /\ req[h].pc = "send"
  /\ sent' = [sent EXCEPT ![req[h].from] = Some(Sent(req[h]))]
  /\ records' = [records EXCEPT ![req[h].from] = @ \cup readingRecords(req[h])]
  /\ req' = [req EXCEPT ![h] = Idle]
  /\ UNCHANGED <<Patient, OnboardingState, nextId, faults, routed, last, script, deployed, botVars, medicalVars>>

\* the steps of a request that is being handled
Handle(h) ==
  \/ CheckOnboardingStatus(h)
  \/ FindOne(h)
  \/ Create(h)
  \/ FindOneAndUpdate(h)
  \/ FindOneAndDelete(h)
  \/ Save(h)
  \/ AnalyzeWithClaudeRAG(h)
  \/ Send(h)

\* one user writes and reads the answer before writing again
Next ==
  \/ \E u \in Users, m \in Inputs : Quiet /\ Webhook(1, u, m)
  \/ \E u \in Users : Quiet /\ Redeliver(1, u)
  \/ \E h \in Slots : Handle(h)

Spec == Init /\ [][Next]_vars

(***************************************************************************)
(* Overlapping deliveries.  The collections outlive the process, so the     *)
(* server starts on whatever earlier registrations left: nothing, or the    *)
(* session of a user who has answered every question but the last.          *)
(***************************************************************************)
\* the answers of a registration up to the HbA1c question, medication None
AnswersBeforeHbA1c ==
  << <<"2">>, <<"2">>, <<"2">>, <<"2">>,
     <<"9","8","7","6","5","4","3","2","1","0">>,
     <<"5","6","0","0","0","1">>,
     <<"2">>, <<"2">>, <<"2">>, <<"4">>, <<"2">>, <<"2">> >>

\* the session after handleOnboarding handled the answers from the i-th on
RECURSIVE sessionAfter(_, _, _)
sessionAfter(doc, answers, i) ==
  IF i > Len(answers) THEN doc
  ELSE LET out == stepSwitch(doc.currentStep, doc.data, answers[i])
       IN  sessionAfter([doc EXCEPT !.currentStep = out.nextStep, !.data = out.data],
                        answers, i + 1)

\* the session a user left who stopped at the HbA1c question
SessionAtHbA1c ==
  sessionAfter([id |-> 1, currentStep |-> "language", data |-> EmptyMap],
               AnswersBeforeHbA1c, 1)

\* the messages sent while deliveries overlap
RaceInputs == { <<"2">>, <<"7">> }

InitRace ==
  /\ Patient = [u \in Users |-> Null]
  /\ \E left \in {Null, Some(SessionAtHbA1c)} :
       /\ OnboardingState = [u \in Users |-> left]
       /\ nextId = IF left = Null THEN 1 ELSE 2
       /\ routed = IF left = Null THEN {} ELSE Users
  /\ req = [h \in Slots |-> Idle]
  /\ faults = 0
  /\ deployed = "server.js"
  /\ last = NoHistory
  /\ script = NoHistory
  /\ records = NoRecords
  /\ sent = NoHistory
  /\ BotAtRest
  /\ MedicalAtRest

\* deliveries arrive while earlier ones are being handled
NextRace ==
  \E h \in Slots :
    \/ \E u \in Users, m \in RaceInputs : Webhook(h, u, m)
    \/ \E u \in Users : Redeliver(h, u)
    \/ Handle(h)

SpecRace == InitRace /\ [][NextRace]_vars

(***************************************************************************)
(* index.js: the bot that keeps its users in memory.  The handler of        *)
(* POST /webhook changes userState before its first await, so the handling  *)
(* of one message is one step.                                              *)
(***************************************************************************)
toUpperCase(s) == [i \in 1..Len(s) |-> toUpperChar(s[i])]

\* text.split(" "): the pieces between single spaces
RECURSIVE splitOnSpace(_, _, _)
splitOnSpace(s, i, cur) ==
  IF i > Len(s) THEN <<cur>>
  ELSE IF s[i] = " " THEN <<cur>> \o splitOnSpace(s, i + 1, <<>>)
  ELSE splitOnSpace(s, i + 1, Append(cur, s[i]))

\* Number(parts[1]) for the pieces the users send, which hold no sign, point,
\* exponent or radix prefix: NaN (Null) for a missing piece and for a piece
\* that holds a character other than a digit, 0 for the empty piece
Number(parts) ==
  IF Len(parts) < 2 THEN Null
  ELSE IF \E i \in 1..Len(parts[2]) : ~IsDigit(parts[2][i]) THEN Null
  ELSE Some(parseInt(parts[2]))

ReadingTypes == { <<"F","A","S","T","I","N","G">>, <<"P","P">>, <<"R","A","N","D","O","M">> }

\* the test of the sugar parser with the bounds 20 and 600 allowed
validReadingInclusive(type, value) ==
  type \in ReadingTypes /\ value # Null /\ value[1] >= 20 /\ value[1] <= 600

\* ["FASTING", "PP", "RANDOM"].includes(type) && !isNaN(value) &&
\* value > 20 && value < 600
validReading(type, value) ==
  type \in ReadingTypes /\ value # Null /\ value[1] > 20 /\ value[1] < 600

\* the readings one user can have stored
MaxReadings == 3

\* userState[from] = { step: "NEW", readings: [] }
NewUser == [step |-> "NEW", readings |-> <<>>]

\* the entry of the user after the handler ran on text, and the text sent
\* (readings carry no time here: getTimestamp is read by HISTORY only)
botOutcome(user, text) ==
  IF text = <<"S","T","A","R","T">> /\ user.step = "NEW"
    THEN [user |-> [user EXCEPT !.step = "CONSENT"], reply |-> "consent_question"]
  ELSE IF text = <<"Y","E","S">> /\ user.step = "CONSENT"
    THEN [user |-> [user EXCEPT !.step = "ACTIVE"], reply |-> "thank_you"]
  ELSE IF text = <<"N","O">> /\ user.step = "CONSENT"
    THEN [user |-> [user EXCEPT !.step = "EXITED"], reply |-> "no_problem"]
  ELSE IF text = <<"H","E","L","P">> /\ user.step = "ACTIVE"
    THEN [user |-> user, reply |-> "commands"]
  ELSE IF text = <<"H","I","S","T","O","R","Y">> /\ user.step = "ACTIVE"
    THEN [user |-> user,
          reply |-> IF Len(user.readings) = 0 THEN "no_readings" ELSE "recent_readings"]
  ELSE IF text = <<"S","T","O","P">>
    THEN [user |-> [user EXCEPT !.step = "EXITED"], reply |-> "paused"]
  ELSE IF user.step = "ACTIVE"
    THEN LET parts == splitOnSpace(text, 1, <<>>)
             type == parts[1]
             value == Number(parts)
         IN  IF validReading(type, value)
               THEN [user |-> [user EXCEPT !.readings =
                                 Append(@, [type |-> type, value |-> value[1]])],
                     reply |-> "noted"]
               ELSE [user |-> user, reply |-> "could_not_understand"]
  ELSE [user |-> user, reply |-> "type_start"]

\* app.post("/webhook") of index.js for a text message
Post(u, body) ==
  /\ deployed = "index.js"
  /\ LET rawText == trim(body)
         text == toUpperCase(rawText)
         user == IF userState[u] = Null THEN NewUser ELSE userState[u][1]
     IN  \E out \in { botOutcome(user, text) } :
           /\ Len(out.user.readings) <= MaxReadings
           /\ userState' = [userState EXCEPT ![u] = Some(out.user)]
           /\ sent' = [sent EXCEPT ![u] = Some(Prompt(out.reply, "en", <<>>))]
           /\ agreed' = IF out.reply = "thank_you" THEN agreed \cup {u} ELSE agreed
  /\ UNCHANGED <<Patient, OnboardingState, nextId, req, faults, deployed, routed, last,
                 script, records, medicalVars>>

\* the texts the users of index.js send
BotInputs == { <<"S","T","A","R","T">>, <<"s","t","a","r","t"," ">>, <<"Y","E","S">>, <<"N","O">>,
               <<"S","T","O","P">>, <<"H","E","L","P">>, <<"H","I","S","T","O","R","Y">>,
               <<"F","A","S","T","I","N","G"," ","1","1","0">>,
               <<"p","p"," ","2","1">>, <<"P","P"," ","2","0">>,
               <<"R","A","N","D","O","M"," ","5","9","9">>,
               <<"R","A","N","D","O","M"," ","6","0","0">>,
               <<"S","U","G","A","R"," ","1","1","0">>,
               <<"F","A","S","T","I","N","G">>,
               <<"F","A","S","T","I","N","G"," "," ","1","1","0">>,
               <<"F","A","S","T","I","N","G"," ","h","i","g","h">> }

InitBot ==
  /\ Patient = [u \in Users |-> Null]
  /\ OnboardingState = [u \in Users |-> Null]
  /\ nextId = 1
  /\ req = [h \in Slots |-> Idle]
  /\ faults = 0
  /\ deployed = "index.js"
  /\ routed = {}
  /\ last = NoHistory
  /\ script = NoHistory
  /\ records = NoRecords
  /\ sent = NoHistory
  /\ BotAtRest
  /\ MedicalAtRest

NextBot == \E u \in Users, body \in BotInputs : Post(u, body)

SpecBot == InitBot /\ [][NextBot]_vars

(***************************************************************************)
(* The medical path of server.js, call by call, for a user whose profile is *)
(* complete: analyzeWithClaudeRAG with its conversation, the reply, and the *)
(* processing of a glucose reading.                                         *)
(***************************************************************************)
\* messages that reach the medical path before the model stops taking more
MaxMessages == 2

\* conversation.messages.length > 20, slice(-20)
KeptMessages == 20

\* the messages stored before the first message of a behaviour
OldMessages == [i \in 1..(KeptMessages - 2) |-> [role |-> "old", id |-> 0]]

\* the two messages analyzeWithClaudeRAG pushes for the id-th message
Exchange(id) == << [role |-> "user", id |-> id], [role |-> "assistant", id |-> id] >>

\* array.slice(-n)
lastOf(messages, n) ==
  IF Len(messages) <= n THEN messages
  ELSE SubSeq(messages, Len(messages) - n + 1, Len(messages))

\* process.env.PHYSICIAN_PHONE: unset, the placeholder, or a number
PhysicianPhones == {"", "+919876543210", "+911122334455"}

\* PHYSICIAN_PHONE && PHYSICIAN_PHONE !== '+919876543210'
alertable(physicianPhone) == physicianPhone # "" /\ physicianPhone # "+919876543210"

\* a slot in which the medical path starts on the id-th message
StartCall(id, text) ==
  [pc |-> "analyze", id |-> id, text |-> text, loaded |-> 0, messages |-> <<>>,
   v |-> 0, reply |-> "", critical |-> FALSE]

\* the webhook past the gate: const reply = await analyzeWithClaudeRAG(...)
MedicalWebhook(h, u, text) ==
  /\ call[h].pc = "idle"
  /\ \A k \in 1..(h - 1) : call[k].pc # "idle"
  /\ ~needsOnboarding(Patient[u])
  /\ Len(exchanges) < MaxMessages
  /\ exchanges' = Append(exchanges, [text |-> text, saved |-> FALSE])
  /\ call' = [call EXCEPT ![h] = StartCall(Len(exchanges) + 1, text)]
  /\ UNCHANGED <<Patient, OnboardingState, nextId, req, faults, deployed, routed, last,
                 script, records, sent, botVars, Conversation, GlucoseReading, Triage,
                 physicianInbox>>

\* the catch of analyzeWithClaudeRAG and its last line: return fallbackResponse(msg)
Fallback(c) == [c EXCEPT !.pc = "reply", !.reply = "fallback"]

\* a step of the medical path that changes the slot only
CallStep(h, after) ==
  /\ call' = [call EXCEPT ![h] = after]
  /\ UNCHANGED <<Patient, OnboardingState, nextId, req, deployed, routed, last,
                 script, records, sent, botVars, GlucoseReading, Triage,
                 physicianInbox, exchanges>>

\* if (!isClaudeAvailable) return fallbackResponse(msg)
IsClaudeAvailable(h) ==
  /\ call[h].pc = "analyze"
  /\ \E isClaudeAvailable \in BOOLEAN :
       CallStep(h, IF isClaudeAvailable
                     THEN [call[h] EXCEPT !.pc = "conversationFindOne"]
                     ELSE Fallback(call[h]))
  /\ UNCHANGED <<Conversation, faults>>

\* let conversation = await Conversation.findOne({ patientPhone: phone }):
\* the first document of the user in the collection
ConversationFindOne(h) ==
  /\ call[h].pc = "conversationFindOne"
  /\ \/ /\ CallStep(h, IF Conversation = <<>>
                          THEN [call[h] EXCEPT !.pc = "conversationCreate"]
                          ELSE [call[h] EXCEPT !.pc = "claude", !.loaded = 1,
                                               !.messages = Conversation[1].messages,
                                               !.v = Conversation[1].v])
        /\ UNCHANGED faults
     \/ /\ MayFail
        /\ faults' = faults + 1
        /\ CallStep(h, Fallback(call[h]))
  /\ UNCHANGED Conversation

\* conversation = await Conversation.create({ patientPhone: phone, messages: [] });
\* the schema has no unique index on patientPhone
ConversationCreate(h) ==
  /\ call[h].pc = "conversationCreate"
  /\ \/ /\ Conversation' = Append(Conversation, [messages |-> <<>>, v |-> 0])
        /\ CallStep(h, [call[h] EXCEPT !.pc = "claude", !.loaded = Len(Conversation) + 1])
        /\ UNCHANGED faults
     \/ /\ MayFail
        /\ faults' = faults + 1
        /\ CallStep(h, Fallback(call[h]))
        /\ UNCHANGED Conversation

\* the search of the medical knowledge and axios.post to the Claude API: a
\* text, or an error or an answer without text
Claude(h) ==
  /\ call[h].pc = "claude"
  /\ \E text \in BOOLEAN :
       CallStep(h, IF text THEN [call[h] EXCEPT !.pc = "conversationSave"]
                   ELSE Fallback(call[h]))
  /\ UNCHANGED <<Conversation, faults>>

\* the two push calls, the trim and await conversation.save().  Mongoose
\* sends pushes alone as $push, which appends to the stored array whatever
\* its version; an array that was assigned (the trim) is sent as $set with
\* the version the document was loaded with, and the save rejects with a
\* VersionError when the stored version differs.
ConversationSave(h) ==
  /\ call[h].pc = "conversationSave"
  /\ LET c == call[h]
         pushed == c.messages \o Exchange(c.id)
         trimmed == Len(pushed) > KeptMessages
         stored == Conversation[c.loaded]
         saved == [exchanges EXCEPT ![c.id].saved = TRUE]
     IN
     \/ /\ ~trimmed
        /\ Conversation' = [Conversation EXCEPT ![c.loaded] =
                              [messages |-> stored.messages \o Exchange(c.id),
                               v |-> stored.v + 1]]
        /\ exchanges' = saved
        /\ call' = [call EXCEPT ![h] = [c EXCEPT !.pc = "touchPatient", !.messages = pushed]]
        /\ UNCHANGED faults
     \/ /\ trimmed /\ stored.v = c.v
        /\ Conversation' = [Conversation EXCEPT ![c.loaded] =
                              [messages |-> lastOf(pushed, KeptMessages), v |-> stored.v + 1]]
        /\ exchanges' = saved
        /\ call' = [call EXCEPT ![h] = [c EXCEPT !.pc = "touchPatient",
                                                 !.messages = lastOf(pushed, KeptMessages)]]
        /\ UNCHANGED faults
     \/ /\ trimmed /\ stored.v # c.v
        /\ call' = [call EXCEPT ![h] = Fallback(c)]
        /\ UNCHANGED <<Conversation, exchanges, faults>>
     \/ /\ MayFail
        /\ faults' = faults + 1
        /\ call' = [call EXCEPT ![h] = Fallback(c)]
        /\ UNCHANGED <<Conversation, exchanges>>
  /\ UNCHANGED <<Patient, OnboardingState, nextId, req, deployed, routed, last,
                 script, records, sent, botVars, GlucoseReading, Triage, physicianInbox>>

\* await Patient.findOneAndUpdate({ phone }, { lastActive, $inc }); return text
TouchPatient(h) ==
  /\ call[h].pc = "touchPatient"
  /\ \/ /\ CallStep(h, [call[h] EXCEPT !.pc = "reply", !.reply = "claude"])
        /\ UNCHANGED faults
     \/ /\ MayFail
        /\ faults' = faults + 1
        /\ CallStep(h, Fallback(call[h]))
  /\ UNCHANGED Conversation

\* await sendWhatsAppMessage(from, reply); const data = extractGlucose(text)
Reply(h) ==
  /\ call[h].pc = "reply"
  /\ CallStep(h, IF hasReading(call[h].text)
                   THEN [call[h] EXCEPT !.pc = "checkCritical"]
                   ELSE NoCall)
  /\ UNCHANGED <<Conversation, faults>>

\* await checkCritical(data.reading, data.readingType, from): the alert is
\* posted when the reading is critical and a physician number is set;
\* sendWhatsAppMessage catches the error of a post that fails
CheckCritical(h) ==
  /\ call[h].pc = "checkCritical"
  /\ LET data == extractGlucose(call[h].text)
         result == checkCritical(data.reading, data.readingType)
     IN  \E physicianPhone \in PhysicianPhones, delivered \in BOOLEAN :
           /\ physicianInbox' =
                IF result.critical /\ alertable(physicianPhone) /\ delivered
                  THEN physicianInbox \cup {[id |-> call[h].id, reading |-> data.reading,
                                               urgency |-> result.urgency]}
                  ELSE physicianInbox
           /\ call' = [call EXCEPT ![h] = [call[h] EXCEPT !.pc = "createTriageRecord",
                                                          !.critical = result.critical]]
  /\ UNCHANGED <<Patient, OnboardingState, nextId, req, faults, deployed, routed, last,
                 script, records, sent, botVars, Conversation, GlucoseReading, Triage,
                 exchanges>>

\* await createTriageRecord(from, data.reading, data.symptoms, reply, []); a
\* rejection reaches the catch of the webhook
CreateTriageRecord(h) ==
  /\ call[h].pc = "createTriageRecord"
  /\ LET data == extractGlucose(call[h].text)
         urgency == assessUrgency(data.reading, data.symptoms)
     IN
     \/ /\ Triage' = Triage \cup {[id |-> call[h].id, glucoseReading |-> data.reading,
                                     urgencyLevel |-> urgency,
                                     physicianAlerted |-> urgency \in {"EMERGENCY", "URGENT"}]}
        /\ call' = [call EXCEPT ![h].pc = "glucoseReadingCreate"]
        /\ UNCHANGED faults
     \/ /\ MayFail
        /\ faults' = faults + 1
        /\ call' = [call EXCEPT ![h] = NoCall]
        /\ UNCHANGED Triage
  /\ UNCHANGED <<Patient, OnboardingState, nextId, req, deployed, routed, last,
                 script, records, sent, botVars, Conversation, GlucoseReading,
                 physicianInbox, exchanges>>

\* await GlucoseReading.create({ ..., alertSent: critical })
GlucoseReadingCreate(h) ==
  /\ call[h].pc = "glucoseReadingCreate"
  /\ LET data == extractGlucose(call[h].text) IN
     \/ /\ GlucoseReading' = GlucoseReading \cup
                                {[id |-> call[h].id, reading |-> data.reading,
                                  readingType |-> data.readingType,
                                  alertSent |-> call[h].critical]}
        /\ UNCHANGED faults
     \/ /\ MayFail
        /\ faults' = faults + 1
        /\ UNCHANGED GlucoseReading
  /\ call' = [call EXCEPT ![h] = NoCall]
  /\ UNCHANGED <<Patient, OnboardingState, nextId, req, deployed, routed, last,
                 script, records, sent, botVars, Conversation, Triage,
                 physicianInbox, exchanges>>

\* the steps of a message on the medical path
HandleMedical(h) ==
  \/ IsClaudeAvailable(h)
  \/ ConversationFindOne(h)
  \/ ConversationCreate(h)
  \/ Claude(h)
  \/ ConversationSave(h)
  \/ TouchPatient(h)
  \/ Reply(h)
  \/ CheckCritical(h)
  \/ CreateTriageRecord(h)
  \/ GlucoseReadingCreate(h)

\* what the user sends on the medical path: a question, and readings
MedicalInputs == { <<"h","i">>, <<"4","5">>,
                   <<"a","f","t","e","r"," ","l","u","n","c","h"," ","2","8","0">> }

InitMedical ==
  /\ Patient = [u \in Users |-> Some(patientDataWithDefaults(u, SessionAtHbA1c.data))]
  /\ OnboardingState = [u \in Users |-> Null]
  /\ nextId = 2
  /\ req = [h \in Slots |-> Idle]
  /\ faults = 0
  /\ deployed = "server.js"
  /\ routed = Users
  /\ last = NoHistory
  /\ script = NoHistory
  /\ records = NoRecords
  /\ sent = NoHistory
  /\ BotAtRest
  /\ Conversation \in { <<>>, << [messages |-> OldMessages, v |-> 0] >> }
  /\ GlucoseReading = {}
  /\ Triage = {}
  /\ physicianInbox = {}
  /\ call = [h \in Slots |-> NoCall]
  /\ exchanges = <<>>

NextMedical ==
  \E h \in Slots :
    \/ \E u \in Users, text \in MedicalInputs : MedicalWebhook(h, u, text)
    \/ HandleMedical(h)

SpecMedical == InitMedical /\ [][NextMedical]_vars

(***************************************************************************)
(* checkCritical and assessUrgency of server.js on one reading, as the      *)
(* webhook calls them: the reading that extractGlucose lets through, its    *)
(* type, and no symptom that assessUrgency knows.                           *)
(***************************************************************************)
\* the readings extractGlucose lets through
Readings == 40..500

\* const { critical, urgency } = await checkCritical(...) and
\* const urgency = assessUrgency(glucose, symptoms) of createTriageRecord
Classify(h) ==
  /\ call[h].pc = "classify"
  /\ call' = [call EXCEPT ![h] =
                [pc |-> "classified", reading |-> call[h].reading, type |-> call[h].type,
                 critical |-> checkCritical(call[h].reading, call[h].type).critical,
                 urgency |-> checkCritical(call[h].reading, call[h].type).urgency,
                 triage |-> assessUrgency(call[h].reading, {})]]
  /\ UNCHANGED <<Patient, OnboardingState, nextId, req, faults, deployed, routed, last,
                 script, records, sent, botVars, Conversation, GlucoseReading, Triage,
                 physicianInbox, exchanges>>

InitUrgency ==
  /\ Patient = [u \in Users |-> Null]
  /\ OnboardingState = [u \in Users |-> Null]
  /\ nextId = 1
  /\ req = [h \in Slots |-> Idle]
  /\ faults = 0
  /\ deployed = "server.js"
  /\ routed = {}
  /\ last = NoHistory
  /\ script = NoHistory
  /\ records = NoRecords
  /\ sent = NoHistory
  /\ BotAtRest
  /\ Conversation = <<>>
  /\ GlucoseReading = {}
  /\ Triage = {}
  /\ physicianInbox = {}
  /\ exchanges = <<>>
  /\ \E reading \in Readings, type \in ReadingKinds :
       call = [h \in Slots |->
                 IF h = 1 THEN [pc |-> "classify", reading |-> reading, type |-> type]
                 ELSE NoCall]

NextUrgency == \E h \in Slots : Classify(h)

SpecUrgency == InitUrgency /\ [][NextUrgency]_vars

(***************************************************************************)
(* POST /admin/reset-user of server.js, beside the webhook.                 *)
(***************************************************************************)
\* the characters of a sender id (msg.from)
Chars(u) ==
  IF u = "919876543210"
    THEN <<"9","1","9","8","7","6","5","4","3","2","1","0">>
    ELSE <<"9","1","9","1","2","3","4","5","6","7","8","9">>

\* const formattedPhone = phone.startsWith('+') ? phone : `+${phone}`
formattedPhone(phone) ==
  IF startsWith(phone, <<"+">>) THEN phone ELSE <<"+">> \o phone

\* the collection after a delete with the filter { phone: formattedPhone }:
\* the document stored under a sender id matches when the id is, character
\* by character, the formatted phone
deleteFormatted(collection, formatted, empty) ==
  [key \in DOMAIN collection |->
     IF Chars(key) = formatted THEN empty ELSE collection[key]]

\* the phones an administrator posts for a user: the sender id, bare or with
\* a leading '+'
AdminPhones == UNION { {Chars(u), <<"+">> \o Chars(u)} : u \in Users }

\* the handler of POST /admin/reset-user up to its response: n of the five
\* deletes ran before one rejected, or all five ran
AdminResetUser(h, phone) ==
  /\ req[h].pc = "idle"
  /\ \E n \in 0..5 :
       LET formatted == formattedPhone(phone) IN
       /\ n < 5 => MayFail
       /\ faults' = IF n < 5 THEN faults + 1 ELSE faults
       /\ Patient' = IF n >= 1 THEN deleteFormatted(Patient, formatted, Null) ELSE Patient
       /\ OnboardingState' = IF n >= 2 THEN deleteFormatted(OnboardingState, formatted, Null)
                             ELSE OnboardingState
       /\ records' = IF n >= 3
                       THEN [u \in DOMAIN records |->
                               IF Chars(u) = formatted
                                 THEN records[u] \ (IF n = 3 THEN {"GlucoseReading"}
                                                    ELSE IF n = 4 THEN {"GlucoseReading", "Conversation"}
                                                    ELSE {"GlucoseReading", "Conversation", "Triage"})
                                 ELSE records[u]]
                       ELSE records
       /\ req' = [req EXCEPT ![h] = [Idle EXCEPT !.pc = "respond", !.route = "admin",
                                                  !.text = formatted,
                                                  !.completed = (n = 5),
                                                  !.failed = (n < 5)]]
  /\ UNCHANGED <<nextId, routed, last, script, deployed, botVars, medicalVars, sent>>

\* res.json({ success: true, ... }) or res.status(500).json(...)
AdminRespond(h) ==
  /\ req[h].pc = "respond"
  /\ req' = [req EXCEPT ![h] = Idle]
  /\ UNCHANGED <<Patient, OnboardingState, nextId, faults, routed, last, script,
                 deployed, botVars, medicalVars, records, sent>>

\* what the user sends beside the administrator's resets
AdminInputs == { <<"2">>, <<"1","5","0">> }

InitAdmin ==
  /\ Patient = [u \in Users |-> Null]
  /\ \E left \in {Null, Some(SessionAtHbA1c)} :
       /\ OnboardingState = [u \in Users |-> left]
       /\ nextId = IF left = Null THEN 1 ELSE 2
       /\ routed = IF left = Null THEN {} ELSE Users
  /\ req = [h \in Slots |-> Idle]
  /\ faults = 0
  /\ deployed = "server.js"
  /\ last = NoHistory
  /\ script = NoHistory
  /\ records = NoRecords
  /\ sent = NoHistory
  /\ BotAtRest
  /\ MedicalAtRest

NextAdmin ==
  \/ \E u \in Users, m \in AdminInputs : Quiet /\ Webhook(1, u, m)
  \/ \E phone \in AdminPhones : Quiet /\ AdminResetUser(1, phone)
  \/ \E h \in Slots : Handle(h) \/ AdminRespond(h)

SpecAdmin == InitAdmin /\ [][NextAdmin]_vars

(***************************************************************************)
(* A user of server.js who is new, or stopped at the emergency-contact      *)
(* question, or stopped at the last question.                               *)
(***************************************************************************)
SessionAtContact == sessionAfter(newSession(1), SubSeq(AnswersBeforeHbA1c, 1, 4), 1)

\* answers to the emergency-contact question: a mobile number, the same with
\* its prefix, a number that opens with 1, and twelve digits that open with 91
ContactInputs == { <<"9","8","7","6","5","4","3","2","1","0">>,
                   <<"+","9","1"," ","9","8","7","6","5","4","3","2","1","0">>,
                   <<"1","2","3","4","5","6","7","8","9","0">>,
                   <<"9","1","1","2","3","4","5","6","7","8","9","0">> }

InitContact ==
  /\ Patient = [u \in Users |-> Null]
  /\ \E left \in {Null, Some(SessionAtContact), Some(SessionAtHbA1c)} :
       /\ OnboardingState = [u \in Users |-> left]
       /\ nextId = IF left = Null THEN 1 ELSE 2
       /\ routed = IF left = Null THEN {} ELSE Users
  /\ req = [h \in Slots |-> Idle]
  /\ faults = 0
  /\ deployed = "server.js"
  /\ last = NoHistory
  /\ script = NoHistory
  /\ records = NoRecords
  /\ sent = NoHistory
  /\ BotAtRest
  /\ MedicalAtRest

NextContact ==
  \/ \E u \in Users, m \in ContactInputs : Quiet /\ Webhook(1, u, m)
  \/ \E u \in Users : Quiet /\ Redeliver(1, u)
  \/ \E h \in Slots : Handle(h)

SpecContact == InitContact /\ [][NextContact]_vars

(***************************************************************************)
(* Two users write to server.js, each reading the answer before writing     *)
(* again, while the handlers of the two interleave.  Each user is new or    *)
(* stopped at the HbA1c question.                                           *)
(***************************************************************************)
Pair == Users \cup {"919123456789"}

\* the session the k-th user of the pair left at the HbA1c question
LeftAtHbA1c(k) == [SessionAtHbA1c EXCEPT !.id = k]

\* what the users of the pair send
PairInputs == { <<"2">> }

\* the users of the pair in the order of their sessions
PairOrder == CHOOSE order \in [1..Cardinality(Pair) -> Pair] :
               \A i, j \in 1..Cardinality(Pair) : order[i] = order[j] => i = j

InitPair ==
  /\ Patient = [u \in Pair |-> Null]
  /\ \E left \in SUBSET Pair :
       /\ OnboardingState =
            [u \in Pair |-> IF u \in left
                              THEN Some(LeftAtHbA1c(CHOOSE k \in 1..Cardinality(Pair) : PairOrder[k] = u))
                              ELSE Null]
       /\ routed = left
  /\ nextId = Cardinality(Pair) + 1
  /\ req = [h \in Slots |-> Idle]
  /\ faults = 0
  /\ deployed = "server.js"
  /\ last = [u \in Pair |-> Null]
  /\ script = [u \in Pair |-> Null]
  /\ records = [u \in Pair |-> {}]
  /\ sent = [u \in Pair |-> Null]
  /\ BotAtRest
  /\ MedicalAtRest

NextPair ==
  \E h \in Slots :
    \/ \E u \in Pair, m \in PairInputs : InFlight(u) = {} /\ Webhook(h, u, m)
    \/ Handle(h)

SpecPair == InitPair /\ [][NextPair]_vars

(***************************************************************************)
(* The server of unnamed/part_000                                          *)
(***************************************************************************)
\* the message bodies the users of part_000 send
Inputs000 == { <<"n","a","m","e"," ","r","a","m"," ","a","g","e"," ","5","0">>,
               <<"n","a","m","e"," ","r","a","m"," ","a","g","e"," ","0">>,
               <<"m","a","l","e"," ","9","8","7","6","5","0","0","0","0","0">>,
               <<"5","6","0","0","0","1"," ","y","e","s">>,
               <<"i","n","s","u","l","i","n">>,
               <<"4">> }

Init000 ==
  /\ Patient = [u \in Users |-> Null]
  /\ OnboardingState = [u \in Users |-> Null]
  /\ nextId = 1
  /\ req = [h \in Slots |-> Idle]
  /\ faults = 0
  /\ deployed = "part_000"
  /\ routed = {}
  /\ last = NoHistory
  /\ script = NoHistory
  /\ records = NoRecords
  /\ sent = NoHistory
  /\ BotAtRest
  /\ MedicalAtRest

Next000 ==
  \/ \E u \in Users, m \in Inputs000 : Quiet /\ Webhook(1, u, m)
  \/ \E u \in Users : Quiet /\ Redeliver(1, u)
  \/ \E h \in Slots : Handle(h)

Spec000 == Init000 /\ [][Next000]_vars

(***************************************************************************)
(* The server of unnamed/part_001 deployed.  The store holds nothing, or    *)
(* the session of a user who has answered every question but the last.     *)
(***************************************************************************)
\* the message bodies the users of part_001 send: answers and commands
Inputs001 == { <<"1">>, <<"2">>, <<"H","i","n","d","i">>, <<"r","e","s","e","t">>, <<"s","t","a","r","t">>, <<"1","5","0">> }

Init001 ==
  /\ Patient = [u \in Users |-> Null]
  /\ \E left \in {Null, Some(SessionAtHbA1c)} :
       /\ OnboardingState = [u \in Users |-> left]
       /\ nextId = IF left = Null THEN 1 ELSE 2
       /\ routed = IF left = Null THEN {} ELSE Users
  /\ req = [h \in Slots |-> Idle]
  /\ faults = 0
  /\ deployed = "part_001"
  /\ last = NoHistory
  /\ script = NoHistory
  /\ records = NoRecords
  /\ sent = NoHistory
  /\ BotAtRest
  /\ MedicalAtRest

\* the steps of a request of part_001 that is being handled
Handle001(h) ==
  \/ Command(h)
  \/ PatientCreate(h)
  \/ Handle(h)

Next001 ==
  \/ \E u \in Users, m \in Inputs001 : Quiet /\ Webhook(1, u, m)
  \/ \E u \in Users : Quiet /\ Redeliver(1, u)
  \/ \E h \in Slots : Handle001(h)

Spec001 == Init001 /\ [][Next001]_vars

(***************************************************************************)
(* The AI-powered server of server.js deployed.  The OnboardingState        *)
(* collection outlives the process: it is empty, or holds the session a     *)
(* user left at step name while the handler of line 880 was running.        *)
(***************************************************************************)
\* the session after the language answer "2" under the handler of line 880
SessionAtName == sessionAfter(newSession(1), << <<"2">> >>, 1)

\* the answer the re-prompt of step basic_info gives as its example
ExampleBasicInfo == <<"R","a","m","e","s","h"," ","K","u","m","a","r",","," ","5","5",","," ","M","a","l","e",","," ","9","8","7","6","5","4","3","2","1","0">>

\* the message bodies sent to the AI-powered server
InputsAI == { <<"2">>, <<"h","i">>, ExampleBasicInfo }

InitAI ==
  /\ Patient = [u \in Users |-> Null]
  /\ \E left \in {Null, Some(SessionAtName)} :
       /\ OnboardingState = [u \in Users |-> left]
       /\ nextId = IF left = Null THEN 1 ELSE 2
       /\ routed = IF left = Null THEN {} ELSE Users
  /\ req = [h \in Slots |-> Idle]
  /\ faults = 0
  /\ deployed = "ai"
  /\ last = NoHistory
  /\ script = NoHistory
  /\ records = NoRecords
  /\ sent = NoHistory
  /\ BotAtRest
  /\ MedicalAtRest

NextAI ==
  \/ \E u \in Users, m \in InputsAI : Quiet /\ Webhook(1, u, m)
  \/ \E u \in Users : Quiet /\ Redeliver(1, u)
  \/ \E h \in Slots : Handle(h)

SpecAI == InitAI /\ [][NextAI]_vars

(***************************************************************************)
(* The diet question of server.js.  The store holds nothing, or the         *)
(* session of a user who stopped at the diet question.                      *)
(***************************************************************************)
\* the session a user left who stopped at the diet question
SessionAtDiet == sessionAfter(newSession(1), SubSeq(AnswersBeforeHbA1c, 1, 10), 1)

\* the answers to the diet question: the three numbers and option names
DietInputs == { <<"1">>, <<"2">>, <<"3">>,
                <<"n","o","n","-","v","e","g">>,
                <<"N","o","n","-","V","e","g","e","t","a","r","i","a","n">>,
                <<"E","g","g">> }

InitDiet ==
  /\ Patient = [u \in Users |-> Null]
  /\ \E left \in {Null, Some(SessionAtDiet)} :
       /\ OnboardingState = [u \in Users |-> left]
       /\ nextId = IF left = Null THEN 1 ELSE 2
       /\ routed = IF left = Null THEN {} ELSE Users
  /\ req = [h \in Slots |-> Idle]
  /\ faults = 0
  /\ deployed = "server.js"
  /\ last = NoHistory
  /\ script = NoHistory
  /\ records = NoRecords
  /\ sent = NoHistory
  /\ BotAtRest
  /\ MedicalAtRest

NextDiet ==
  \/ \E u \in Users, m \in DietInputs : Quiet /\ Webhook(1, u, m)
  \/ \E u \in Users : Quiet /\ Redeliver(1, u)
  \/ \E h \in Slots : Handle(h)

SpecDiet == InitDiet /\ [][NextDiet]_vars

(***************************************************************************)
(* Properties                                                              *)
(***************************************************************************)
\* the request in slot h is about to send what handleOnboarding returned
Answering(h) == req[h].pc = "send" /\ req[h].route = "onboarding"

\* the step whose answer the request in slot h carried
StepHandled(h) == req[h].loaded[1].currentStep

\* the profile of u is complete
Completed(u) == ~needsOnboarding(Patient[u])

\* the fixed sequence of steps
CanonicalSteps == <<"language", "name", "age", "gender", "emergency_contact",
                    "pincode", "consent", "diabetes_type", "duration",
                    "medication_type", "medicine_names", "diet", "comorbidities",
                    "hba1c">>

\* the key of the prompt that asks for a step
PromptKey(step) ==
  CASE step = "language" -> "welcome"
    [] step = "name" -> "ask_name"
    [] step = "age" -> "ask_age"
    [] step = "gender" -> "ask_gender"
    [] step = "emergency_contact" -> "ask_emergency"
    [] step = "pincode" -> "ask_pincode"
    [] step = "consent" -> "ask_consent"
    [] step = "diabetes_type" -> "ask_diabetes_type"
    [] step = "duration" -> "ask_duration"
    [] step = "medication_type" -> "ask_medication"
    [] step = "medicine_names" -> "ask_medicine_names"
    [] step = "diet" -> "ask_diet"
    [] step = "comorbidities" -> "ask_comorbidities"
    [] step = "hba1c" -> "ask_hba1c"
    [] OTHER -> ""

\* the parser of a step returns the invalid sentinel for the message; the two
\* free-text steps have no invalid answer, and "don't know" is an answer to
\* the HbA1c question
parserRejects(step, message) ==
  CASE step = "language" -> parseLanguage(message) = Null
    [] step = "name" -> parseName(message) = Null
    [] step = "age" -> parseAge(message) = Null
    [] step = "gender" -> parseGender(message) = Null
    [] step = "emergency_contact" -> parsePhone(message) = Null
    [] step = "pincode" -> parsePincode(message) = Null
    [] step = "consent" -> parseConsent(message) = Null
    [] step = "diabetes_type" -> parseDiabetesType(message) = Null
    [] step = "duration" -> parseDuration(message) = Null
    [] step = "medication_type" -> parseMedicationType(message) = Null
    [] step = "diet" -> parseDiet(message) = Null
    [] step = "hba1c" -> parseHbA1c(message) = Null /\ ~isDontKnow(message)
    [] OTHER -> FALSE

\* C1: whenever handleOnboarding handled the HbA1c step and returns
\* completed = true with the completion prompt, the Patient record of that
\* phone exists, is complete and holds the collected fields, and the phone has
\* no OnboardingState record, whatever the store calls of savePatientData did.
TerminalCommit ==
  \A h \in Slots :
    (/\ Answering(h)
     /\ req[h].loaded # Null
     /\ StepHandled(h) = "hba1c"
     /\ req[h].completed
     /\ req[h].response.key = "complete")
    => LET u == req[h].from IN
       /\ Patient[u] # Null
       /\ Patient[u][1].onboarding_completed
       /\ Patient[u][1].fields = patientData(u, req[h].data).fields
       /\ OnboardingState[u] = Null

\* C2: while no message of a user is being handled, the user has an
\* OnboardingState record if and only if a message of theirs was routed to
\* onboarding and they have no Patient record with onboarding_completed = true.
SessionIffOnboarding ==
  \A u \in Users :
    InFlight(u) = {}
    => ((OnboardingState[u] # Null) <=> (u \in routed /\ ~Completed(u)))

\* C3: when a store operation of handleOnboarding failed (session read,
\* session save, profile upsert, session delete), the handler returns
\* completed = false with the retry instruction, the session is what the
\* handler loaded, and the user has no completed profile.
NeverAdvanceOnError ==
  \A h \in Slots :
    (Answering(h) /\ req[h].failed /\ req[h].solo)
    => LET u == req[h].from IN
       /\ ~req[h].completed
       /\ req[h].response = CatchText
       /\ (req[h].loaded # Null => OnboardingState[u] = req[h].loaded)
       /\ ~Completed(u)

\* C4: when the parser of the step rejects the message, currentStep after
\* handling is currentStep before handling and the text returned is the
\* "didn't understand" notice followed by the prompt of that step.
RejectionReprompts ==
  \A h \in Slots :
    (/\ Answering(h)
     /\ req[h].loaded # Null
     /\ req[h].solo
     /\ ~req[h].failed
     /\ parserRejects(StepHandled(h), req[h].text))
    => LET u == req[h].from IN
       /\ OnboardingState[u] # Null
       /\ OnboardingState[u][1].currentStep = StepHandled(h)
       /\ req[h].response.retry
       /\ req[h].response.key = PromptKey(StepHandled(h))

\* the run of answers s chose medication type None
tookNone(s) == Len(s) >= 10 /\ parseMedicationType(s[10]) = Some("None")

\* the number of steps on the path the run takes
PathLength(s) == IF tookNone(s) THEN 13 ELSE 14

\* the step the i-th answer of the run answers
StepAnswered(s, i) ==
  IF i > 10 /\ tookNone(s) THEN CanonicalSteps[i + 1] ELSE CanonicalSteps[i]

\* every answer of the run is a valid answer to its step
ValidRun(s) ==
  /\ Len(s) <= PathLength(s)
  /\ \A i \in 1..Len(s) : ~parserRejects(StepAnswered(s, i), s[i])

\* the answer of the run to a step after the medication type
Later(s, step) ==
  LET i == CHOOSE k \in 11..14 : CanonicalSteps[k] = step
  IN  s[IF tookNone(s) THEN i - 1 ELSE i]

\* the profile fields as the parsers read them from a complete run of answers
ParsedProfile(s) ==
  [f \in Fields |->
     CASE f = "language_pref" -> parseLanguage(s[1])
       [] f = "full_name" -> parseName(s[2])
       [] f = "age" -> parseAge(s[3])
       [] f = "gender" -> parseGender(s[4])
       [] f = "emergency_contact" -> parsePhone(s[5])
       [] f = "pincode" -> parsePincode(s[6])
       [] f = "consent_given" -> parseConsent(s[7])
       [] f = "diabetes_type" -> parseDiabetesType(s[8])
       [] f = "duration_years" -> parseDuration(s[9])
       [] f = "medication_type" -> parseMedicationType(s[10])
       [] f = "current_meds" ->
            IF tookNone(s) THEN Some(NoneList)
            ELSE Some(parseMedicineNames(Later(s, "medicine_names")))
       [] f = "diet_preference" -> parseDiet(Later(s, "diet"))
       [] f = "comorbidities" -> Some(parseComorbidities(Later(s, "comorbidities")))
       [] f = "last_hba1c" -> Some(parseHbA1c(Later(s, "hba1c")))]

\* C5: after first contact of an unknown user, a run of valid answers, one per
\* step in order, is answered with completed = true exactly at the answer that
\* ends the path (the 14th, or the 13th when the medication type is None), and
\* then the Patient record is complete and every field is the value the
\* parser reads from the answer to its step.
CompletesInExactlyN ==
  \A h \in Slots :
    LET u == req[h].from IN
    (/\ req[h].pc = "send"
     /\ script[u] # Null
     /\ ValidRun(script[u][1]))
    => LET s == script[u][1] IN
       /\ req[h].completed <=> Len(s) = PathLength(s)
       /\ req[h].completed =>
            /\ Patient[u] # Null
            /\ Patient[u][1].onboarding_completed
            /\ Patient[u][1].fields = ParsedProfile(s)
            /\ OnboardingState[u] = Null

\* a run of 13 valid answers with medication type None has just completed
CompletedWithoutMedicineNames ==
  \E h \in Slots :
    LET u == req[h].from IN
    /\ req[h].pc = "send"
    /\ req[h].completed
    /\ script[u] # Null
    /\ ValidRun(script[u][1])
    /\ tookNone(script[u][1])
    /\ Len(script[u][1]) = 13
    /\ Completed(u)

\* C9: once the first delivery of the terminal message has written the
\* profile and deleted the session, a second delivery of that message leaves
\* the Patient record as the first delivery wrote it and the OnboardingState
\* record deleted.
ReplayAfterCommit ==
  \A u \in Users :
    (/\ last[u] # Null
     /\ last[u][1].again
     /\ last[u][1].profile # Null
     /\ last[u][1].deleted)
    => /\ Patient[u] = last[u][1].profile
       /\ OnboardingState[u] = Null

\* the terminal message was delivered again after its commit and the second
\* delivery has been answered
ReplayedAfterCommit ==
  \E u \in Users :
    /\ last[u] # Null
    /\ last[u][1].again
    /\ last[u][1].profile # Null
    /\ last[u][1].deleted
    /\ last[u][1].step = "hba1c"
    /\ Quiet

\* C10: when the first delivery of the terminal message wrote the profile and
\* did not delete the session, a second delivery of it is not answered with
\* the HbA1c prompt and ends with the session deleted and the profile as
\* written.
RetryFinishesCommit ==
  \A h \in Slots :
    LET u == req[h].from IN
    (/\ req[h].pc = "send"
     /\ req[h].retry
     /\ last[u] # Null
     /\ last[u][1].profile # Null
     /\ ~last[u][1].deleted)
    => /\ req[h].response.key # "ask_hba1c"
       /\ OnboardingState[u] = Null
       /\ Patient[u] = last[u][1].profile

\* the positions one accepted answer leads to
Successors(step) ==
  CASE step = "none" -> {"language"}
    [] step = "medication_type" -> {"medicine_names", "diet"}
    [] step = "hba1c" -> {"completed"}
    [] step = "completed" -> {}
    [] OTHER -> {CanonicalSteps[i + 1] :
                   i \in {k \in 1..13 : CanonicalSteps[k] = step}}

\* C6: a session starts at language, every change of its currentStep is a
\* move to the immediate successor in the fixed sequence (medicine names may
\* be skipped after the medication type), and it ends after HbA1c: no other
\* step is skipped and currentStep never moves backwards.
OnlySequenceTransitions ==
  [][\A u \in Users :
       OnboardingState[u]' # OnboardingState[u]
       => IF OnboardingState[u] = Null
            THEN OnboardingState[u]'[1].currentStep = "language"
          ELSE IF OnboardingState[u]' = Null
            THEN OnboardingState[u][1].currentStep = "hba1c"
          ELSE OnboardingState[u]'[1].currentStep
                 \in {OnboardingState[u][1].currentStep}
                     \cup Successors(OnboardingState[u][1].currentStep)]_vars

\* C8: after both deliveries of one inbound answer were handled, the user is
\* at most one step past the step the answer arrived at, and the deliveries
\* wrote the profile at most once.
RetryAdvancesOnce ==
  \A u \in Users :
    (/\ last[u] # Null
     /\ last[u][1].again
     /\ last[u][1].step \notin {"none", "completed"}
     /\ InFlight(u) = {})
    => /\ Position(u) \in {last[u][1].step} \cup Successors(last[u][1].step)
       /\ last[u][1].writes <= 1

\* C7: when the answer to the medication question is taken as None, the next
\* step is diet and current_meds is ["None"]; when it is taken as Insulin,
\* Tablets or Both, the next step is medicine_names.
MedicationBranch ==
  \A h \in Slots :
    (/\ req[h].pc = "save"
     /\ StepHandled(h) \in {"medication_type", "medication"}
     /\ req[h].nextStep # StepHandled(h))
    => LET medType == req[h].data["medication_type"] IN
       /\ medType = Some("None")
            => /\ req[h].nextStep = "diet"
               /\ req[h].data["current_meds"] = Some(NoneList)
       /\ medType \in {Some("Insulin"), Some("Tablets"), Some("Both")}
            => req[h].nextStep = "medicine_names"

\* the request in slot h went through the new-user branch of handleOnboarding
\* and OnboardingState.create did not reject
NewUserBranch(h) ==
  /\ Answering(h)
  /\ req[h].loaded = Null
  /\ ~req[h].failed

\* C11: when handleOnboarding finds no session for the sender, it creates one
\* at step language with no field set and returns the English welcome prompt
\* with completed = false, whatever the text of the message is.
FirstContactNotConsumed ==
  \A h \in Slots :
    (NewUserBranch(h) /\ req[h].solo)
    => LET u == req[h].from IN
       /\ OnboardingState[u] # Null
       /\ OnboardingState[u][1].currentStep = "language"
       /\ \A f \in Fields : OnboardingState[u][1].data[f] = Null
       /\ req[h].response = Prompt("welcome", "en", <<>>)
       /\ ~req[h].completed

\* a first message that is a valid language choice was answered with the
\* welcome prompt
FirstContactWithLanguageChoice ==
  \E h \in Slots :
    /\ NewUserBranch(h)
    /\ req[h].solo
    /\ req[h].text = <<"2">>
    /\ parseLanguage(req[h].text) = Some("hi")
    /\ OnboardingState[req[h].from] # Null

\* C12: once the Patient record of a user has onboarding_completed = true, no
\* step of handleOnboarding or savePatientData changes the record, a step of a
\* handler that was already running included.
CompletedProfileImmutable ==
  [][\A u \in Users : Completed(u) => Patient[u]' = Patient[u]]_vars

\* the words parseComorbidities looks for
ConditionWords ==
  << <<"b","p">>, <<"p","r","e","s","s","u","r","e">>,
     <<"h","y","p","e","r","t","e","n","s","i","o","n">>,
     <<"c","h","o","l","e","s","t","e","r","o","l">>, <<"l","i","p","i","d">>,
     <<"h","e","a","r","t">>, <<"c","a","r","d","i","a","c">>, <<"U0926","U093F","U0932">>,
     <<"k","i","d","n","e","y">>, <<"r","e","n","a","l">>,
     <<"U0917","U0941","U0930","U094D","U0926","U093E">>,
     <<"t","h","y","r","o","i","d">> >>

\* the message contains none of the words of a list
mentionsNone(message, words) ==
  \A i \in 1..Len(words) : ~includes(toLowerCase(message), words[i])

\* the field a free-text step fills
FreeTextField(step) ==
  IF step = "medicine_names" THEN "current_meds" ELSE "comorbidities"

\* the words a free-text step recognises; the medicine names the repository
\* knows are commonMeds
FreeTextWords(step) ==
  IF step = "medicine_names" THEN commonMeds ELSE ConditionWords

\* C13: at the medicine-names step and at the comorbidities step every
\* message moves the handler to the next step, and a message with no
\* recognised word stores exactly ["None"] in the field of the step.
FreeTextNeverBlocks ==
  \A h \in Slots :
    (/\ req[h].pc = "save"
     /\ StepHandled(h) \in {"medicine_names", "comorbidities"})
    => /\ req[h].nextStep # StepHandled(h)
       /\ mentionsNone(req[h].text, FreeTextWords(StepHandled(h)))
            => req[h].data[FreeTextField(StepHandled(h))] = Some(NoneList)

\* C14: when the parser of the step rejects the message, the session stored
\* after handling has the currentStep and the fields the handler loaded, so a
\* later valid answer is handled from the same session.
RejectionLeavesSession ==
  \A h \in Slots :
    (/\ Answering(h)
     /\ req[h].loaded # Null
     /\ req[h].solo
     /\ ~req[h].failed
     /\ parserRejects(StepHandled(h), req[h].text))
    => OnboardingState[req[h].from] = req[h].loaded

\* the number of times the request made a store call
Calls(r, op) == Cardinality({i \in 1..Len(r.ops) : r.ops[i] = op})

\* C15: a message routed to onboarding and handled while no store call has
\* failed is answered with a non-empty text after exactly one session read,
\* and either the profile is not written, the session is not deleted and the
\* session is written at most once, or the profile is written once, the
\* session is deleted once and the session is not written.
OneReadOneWrite ==
  \A h \in Slots :
    (Answering(h) /\ faults = 0)
    => LET r == req[h]
           sessionWrites == Calls(r, "create") + Calls(r, "save")
       IN  /\ Sent(r).key # ""
           /\ Calls(r, "findOne") = 1
           /\ IF Calls(r, "findOneAndUpdate") > 0
                THEN /\ Calls(r, "findOneAndUpdate") = 1
                     /\ Calls(r, "findOneAndDelete") = 1
                     /\ sessionWrites = 0
                ELSE /\ Calls(r, "findOneAndDelete") = 0
                     /\ sessionWrites <= 1

\* the steps the switch of part_000 has a case for
Steps000 == {"language", "name_age", "gender_emergency", "pincode_consent",
             "diabetes_type", "duration", "medication", "medicine_names",
             "comorbidities", "hba1c", "diet"}

\* the steps the switch of the deployed handler has a case for
KnownSteps ==
  IF deployed = "ai" THEN StepsAI
  ELSE IF deployed = "part_000" THEN Steps000
  ELSE {CanonicalSteps[i] : i \in 1..Len(CanonicalSteps)}

\* C16: when the stored currentStep is not a step of the handler and no
\* store call fails, handling a message leaves the session at step language,
\* the text sent is the restart instruction, and no profile is written.
UnknownStepResets ==
  \A h \in Slots :
    (/\ Answering(h)
     /\ req[h].loaded # Null
     /\ faults = 0
     /\ StepHandled(h) \notin KnownSteps)
    => LET u == req[h].from IN
       /\ OnboardingState[u] # Null
       /\ OnboardingState[u][1].currentStep = "language"
       /\ Sent(req[h]) = UnknownStepText
       /\ ~req[h].completed
       /\ Calls(req[h], "findOneAndUpdate") = 0

\* the language the session of the request had stored when it was loaded,
\* English when it had none
SessionLanguage(r) == getOr(r.loaded[1].data, "language_pref", "en")[1]

\* the request ended on a failure path: a store call threw and the catch
\* answered, the stored step was unknown, or the answer was rejected
FailurePath(h) ==
  \/ req[h].failed
  \/ StepHandled(h) \notin KnownSteps
  \/ Sent(req[h]).retry

\* C17: on every failure path of a request that loaded a session, the text
\* sent to the user is in the language_pref of that session, English only if
\* the session has none.
FailureTextInSessionLanguage ==
  \A h \in Slots :
    (Answering(h) /\ req[h].loaded # Null /\ FailurePath(h))
    => Sent(req[h]).lang = SessionLanguage(req[h])

\* C18: at step hba1c, a message that is not a "don't know" answer and has no
\* number within 3.0 to 20.0 is answered with the re-prompt, the session stays
\* at hba1c and onboarding does not complete.
InvalidHbA1cReprompted ==
  \A h \in Slots :
    (/\ Answering(h)
     /\ req[h].loaded # Null
     /\ req[h].solo
     /\ ~req[h].failed
     /\ StepHandled(h) = "hba1c"
     /\ ~isDontKnow(req[h].text)
     /\ parseHbA1c(req[h].text) = Null)
    => LET u == req[h].from IN
       /\ ~req[h].completed
       /\ req[h].response.retry
       /\ OnboardingState[u] # Null
       /\ OnboardingState[u][1].currentStep = "hba1c"

\* the ages the onboarding accepts
ValidAges == 1..120

\* C19: the age stored in the data of a session and the age stored in a
\* profile are within 1 to 120.
StoredAgeInRange ==
  \A u \in Users :
    /\ (OnboardingState[u] # Null /\ OnboardingState[u][1].data["age"] # Null)
         => OnboardingState[u][1].data["age"][1] \in ValidAges
    /\ (Patient[u] # Null /\ Patient[u][1].fields["age"] # Null)
         => Patient[u][1].fields["age"][1] \in ValidAges

\* the message is the number or has a keyword of the second diet option
namesNonVeg(message) ==
  LET lower == trim(toLowerCase(message)) IN
  \/ lower = <<"2">>
  \/ includes(lower, <<"n","o","n">>)
  \/ includes(lower, <<"U092E","U093E","U0902","U0938","U093E","U0939","U093E","U0930","U0940">>)
  \/ includes(lower, <<"U0CAE","U0CBE","U0C82","U0CB8","U0CBE","U0CB9","U0CBE","U0CB0","U0CBF">>)

\* C20: an answer to the diet question that is "2" or has a keyword of the
\* non-vegetarian option, in any letter case, is stored as Non-Veg.
NonVegStoredAsNonVeg ==
  \A h \in Slots :
    (/\ Answering(h)
     /\ req[h].loaded # Null
     /\ req[h].solo
     /\ ~req[h].failed
     /\ StepHandled(h) = "diet"
     /\ namesNonVeg(req[h].text))
    => LET u == req[h].from IN
       /\ OnboardingState[u] # Null
       /\ OnboardingState[u][1].data["diet_preference"] = Some("Non-Veg")

\* C21: a message that parseLanguage recognises, delivered while the session
\* of the user is at step language and no store call fails, leaves the session
\* past the language step with language_pref set to the language it names.
LanguageKeywordAdvances ==
  \A h \in Slots :
    LET u == req[h].from IN
    (/\ req[h].pc = "send"
     /\ req[h].solo
     /\ ~req[h].retry
     /\ faults = 0
     /\ last[u] # Null
     /\ last[u][1].step = "language"
     /\ parseLanguage(req[h].text) # Null)
    => /\ OnboardingState[u] # Null
       /\ OnboardingState[u][1].currentStep # "language"
       /\ OnboardingState[u][1].data["language_pref"] = parseLanguage(req[h].text)

\* C22: when parseWithClaude has no reply (Claude is unavailable or the call
\* failed) and the user answers the basic_info question with the example the
\* prompt gives, the answer is accepted and the session advances.
PassableWithoutClaude ==
  \A h \in Slots :
    (/\ Answering(h)
     /\ deployed = "ai"
     /\ req[h].loaded # Null
     /\ req[h].solo
     /\ ~req[h].failed
     /\ StepHandled(h) = "basic_info"
     /\ req[h].parsed = Null
     /\ req[h].text = ExampleBasicInfo)
    => /\ req[h].nextStep # "basic_info"
       /\ OnboardingState[req[h].from] # Null
       /\ OnboardingState[req[h].from][1].currentStep # "basic_info"

\* the user a step belongs to: the sender of the request that arrives or of
\* the request whose handling goes on
Mover(h) == IF req[h].pc = "idle" THEN req'[h].from ELSE req[h].from

\* C23: a step of the handling of a message of one user leaves the
\* OnboardingState and the Patient document of every other user unchanged,
\* however the handlers of the users interleave.
OtherUsersUnchanged ==
  [][\A b \in DOMAIN Patient :
       (\A h \in Slots : req'[h] # req[h] => Mover(h) # b)
       => /\ Patient'[b] = Patient[b]
          /\ OnboardingState'[b] = OnboardingState[b]]_vars

\* a registration completes while the other user of the pair, whose handler
\* is running too, has a session
CompletedBesideSession ==
  \E h, k \in Slots :
    /\ req[h].pc = "send" /\ req[h].completed
    /\ req[k].pc \notin {"idle", "send"}
    /\ req[k].from # req[h].from
    /\ OnboardingState[req[k].from] # Null
    /\ Patient[req[h].from] # Null

\* "+91" followed by ten digits of which the first is 6, 7, 8 or 9
IsMobileNumber(value) ==
  /\ Len(value) = 13
  /\ SubSeq(value, 1, 3) = <<"+", "9", "1">>
  /\ value[4] \in {"6", "7", "8", "9"}
  /\ \A i \in 4..13 : IsDigit(value[i])

\* C24: every emergency_contact stored, in a session or in a profile, is
\* "+91" followed by ten digits of which the first is 6 to 9.
StoredContactIsMobileNumber ==
  \A u \in Users :
    /\ (OnboardingState[u] # Null /\ OnboardingState[u][1].data["emergency_contact"] # Null)
         => IsMobileNumber(OnboardingState[u][1].data["emergency_contact"][1])
    /\ (Patient[u] # Null /\ Patient[u][1].fields["emergency_contact"] # Null)
         => IsMobileNumber(Patient[u][1].fields["emergency_contact"][1])

\* C25: when the terminal step was answered and savePatientData deleted the
\* session, the handler attempts no session write and returns completed = true,
\* no OnboardingState of the user exists afterwards, and no session with
\* currentStep 'completed' is ever stored.
CompletionWritesNoSession ==
  /\ \A h \in Slots :
       (Answering(h) /\ faults = 0 /\ Calls(req[h], "findOneAndDelete") > 0 /\ req[h].solo)
       => /\ Calls(req[h], "save") = 0
          /\ req[h].completed
          /\ OnboardingState[req[h].from] = Null
  /\ \A u \in Users :
       (faults = 0 /\ OnboardingState[u] # Null)
       => OnboardingState[u][1].currentStep # "completed"

\* C26: when the session is at step choice and the answer is "2", a Patient
\* with onboarding_completed = true exists afterwards, the OnboardingState is
\* deleted, and the handler returns the emergency-ready prompt with
\* completed = true.
EmergencySkipCompletes ==
  \A h \in Slots :
    (/\ Answering(h)
     /\ faults = 0
     /\ req[h].loaded # Null
     /\ StepHandled(h) = "choice"
     /\ trim(req[h].text) = <<"2">>)
    => LET u == req[h].from IN
       /\ Patient[u] # Null
       /\ Patient[u][1].onboarding_completed
       /\ OnboardingState[u] = Null
       /\ req[h].completed
       /\ Sent(req[h]).key = "emergency_ready"

\* C27: when POST /admin/reset-user has answered success for a phone, written
\* with or without a leading '+', the user whose sender id is that phone has
\* no Patient and no OnboardingState.
AdminResetClearsUser ==
  \A h \in Slots :
    (req[h].pc = "respond" /\ req[h].completed)
    => \A u \in Users :
         req[h].text = formattedPhone(Chars(u))
         => Patient[u] = Null /\ OnboardingState[u] = Null

\* the commands that ask for a new start rather than answer a question
RestartCommands == { <<"r","e","s","e","t">>, <<"s","t","a","r","t">>,
                     <<"b","e","g","i","n">>, <<"s","e","t","u","p">> }

\* the last text sent to the user is the confirmation of a reset
JustReset(u) == sent[u] # Null /\ sent[u][1].key = "reset_complete_welcome"

\* C28: when RESET has succeeded the user has no Patient, no OnboardingState
\* and no GlucoseReading, Conversation or Triage records, and the handling of
\* the user's next message creates a session at step language.
ResetStartsOnboarding ==
  \A h \in Slots :
    LET u == req[h].from IN
    /\ (req[h].pc = "send" /\ req[h].route = "command"
        /\ Sent(req[h]).key = "reset_complete_welcome")
       => /\ Patient[u] = Null
          /\ OnboardingState[u] = Null
          /\ records[u] = {}
    /\ (req[h].pc = "send" /\ JustReset(u) /\ faults = 0 /\ ~req[h].retry
        /\ trim(toLowerCase(req[h].text)) \notin RestartCommands)
       => /\ OnboardingState[u] # Null
          /\ OnboardingState[u][1].currentStep = "language"

\* the texts that end with the language-selection welcome prompt
WelcomeKeys == {"welcome", "reset_complete_welcome", "complete_profile_welcome"}

\* C29: when the last text sent to a user without a completed profile is the
\* welcome prompt, the answer "1" or "2" is taken as the language choice: the
\* session exists afterwards and is past step language.
WelcomeAnswerIsLanguageChoice ==
  \A h \in Slots :
    LET u == req[h].from IN
    (/\ req[h].pc = "send"
     /\ req[h].solo
     /\ ~req[h].retry
     /\ faults = 0
     /\ sent[u] # Null
     /\ sent[u][1].key \in WelcomeKeys
     /\ needsOnboarding(Patient[u])
     /\ trim(req[h].text) \in { <<"1">>, <<"2">> })
    => /\ OnboardingState[u] # Null
       /\ OnboardingState[u][1].currentStep # "language"
       /\ OnboardingState[u][1].data["language_pref"] = parseLanguage(req[h].text)

\* C30: once the completion prompt has been sent to a user, a later message of
\* that user is not handled by handleOnboarding: the message that follows the
\* completion prompt is never routed to onboarding.
CompletedStaysOnMedicalPath ==
  \A h \in Slots :
    LET u == req[h].from IN
    (/\ req[h].pc # "idle"
     /\ sent[u] # Null
     /\ sent[u][1].key = "complete")
    => req[h].route # "onboarding"

\* C31: every Patient stored with onboarding_completed = true has
\* consent_given = true, and a user who answers No at the consent step is not
\* asked the question of step diabetes_type.
OnlyConsentedProfiles ==
  /\ \A u \in Users :
       (Patient[u] # Null /\ Patient[u][1].onboarding_completed)
       => Patient[u][1].fields["consent_given"] = Some(TRUE)
  /\ \A h \in Slots :
       (/\ Answering(h)
        /\ req[h].loaded # Null
        /\ StepHandled(h) = "consent"
        /\ parseConsent(req[h].text) = Some(FALSE))
       => Sent(req[h]).key # "ask_diabetes_type"

\* C32: in index.js a user at step EXITED who sends START is at step CONSENT
\* afterwards and is sent the consent question.
ExitedUserResumes ==
  [][\A u \in Users :
       (/\ userState[u] # Null
        /\ userState[u][1].step = "EXITED"
        /\ \E body \in BotInputs :
             toUpperCase(trim(body)) = <<"S","T","A","R","T">> /\ Post(u, body))
       => /\ userState'[u][1].step = "CONSENT"
          /\ sent'[u] = Some(Prompt("consent_question", "en", <<>>))]_vars

\* the step of the user's entry, "NEW" before the first message
StepOf(entry) == IF entry = Null THEN "NEW" ELSE entry[1].step

\* the readings of the user's entry
ReadingsOf(entry) == IF entry = Null THEN <<>> ELSE entry[1].readings

\* C33: in index.js a reading is appended only while the user's step is
\* ACTIVE; the step becomes CONSENT only from NEW and ACTIVE only from CONSENT,
\* the latter by the reply YES; a user with readings has replied YES to the
\* consent question; every stored reading has type FASTING, PP or RANDOM and a
\* value strictly between 20 and 600.
ReadingsOnlyAfterConsent ==
  /\ [](\A u \in Users :
          /\ ReadingsOf(userState[u]) # <<>> => u \in agreed
          /\ StepOf(userState[u]) = "ACTIVE" => u \in agreed
          /\ \A i \in 1..Len(ReadingsOf(userState[u])) :
               LET r == ReadingsOf(userState[u])[i]
               IN  r.type \in ReadingTypes /\ r.value > 20 /\ r.value < 600)
  /\ [][\A u \in Users :
          LET before == StepOf(userState[u])
              after == StepOf(userState'[u])
          IN  /\ ReadingsOf(userState'[u]) # ReadingsOf(userState[u])
                 => /\ before = "ACTIVE"
                    /\ \E r \in [type : ReadingTypes, value : 21..599] :
                         ReadingsOf(userState'[u]) = Append(ReadingsOf(userState[u]), r)
              /\ (after = "CONSENT" /\ before # "CONSENT") => before = "NEW"
              /\ (after = "ACTIVE" /\ before # "ACTIVE")
                 => before = "CONSENT" /\ u \in agreed' /\ u \notin agreed]_vars

\* a user who agreed, sent two readings and then stopped
StoppedWithReadings ==
  \E u \in Users :
    /\ StepOf(userState[u]) = "EXITED"
    /\ Len(ReadingsOf(userState[u])) >= 2
    /\ u \in agreed

\* C35: for every reading in 40..500, every reading type and no symptom,
\* checkCritical reports EMERGENCY exactly when assessUrgency returns
\* EMERGENCY, and URGENT exactly when assessUrgency returns URGENT.
UrgencyConsistent ==
  \A h \in Slots :
    call[h].pc = "classified"
    => /\ (call[h].urgency = "EMERGENCY") <=> (call[h].triage = "EMERGENCY")
       /\ (call[h].urgency = "URGENT") <=> (call[h].triage = "URGENT")

\* an alert for the reading of the id-th message reached the physician number
Alerted(id) == \E alert \in physicianInbox : alert.id = id

\* C34: a GlucoseReading stored with alertSent = true and a Triage record
\* stored with physicianAlerted = true each imply that an alert for that
\* reading was sent to the physician number.
AlertFlagsMeanAlertSent ==
  /\ \A doc \in GlucoseReading : doc.alertSent => Alerted(doc.id)
  /\ \A doc \in Triage : doc.physicianAlerted => Alerted(doc.id)

\* the conversation that Conversation.findOne returns for the user
StoredMessages == IF Conversation = <<>> THEN <<>> ELSE Conversation[1].messages

\* C36: every stored conversation holds at most 20 messages; a save of
\* analyzeWithClaudeRAG leaves the saved document ending with the current
\* user message and its reply; and when the handlers have finished, the
\* exchange of every message whose save resolved is in the user's stored
\* conversation.
ConversationKeepsExchanges ==
  /\ [](\A i \in 1..Len(Conversation) : Len(Conversation[i].messages) <= KeptMessages)
  /\ [][\A h \in Slots :
          (call[h].pc = "conversationSave" /\ call'[h].pc = "touchPatient")
          => lastOf(Conversation'[call[h].loaded].messages, 2) = Exchange(call[h].id)]_vars
  /\ []((\A h \in Slots : call[h].pc = "idle")
        => \A id \in 1..Len(exchanges) :
             exchanges[id].saved
             => \E j \in 1..(Len(StoredMessages) - 1) :
                  SubSeq(StoredMessages, j, j + 1) = Exchange(id))

\* ---- first contact of one user handled twice at once ----

\* the steps a handler has been through
StepsDone(h) == { req[h].ops[i] : i \in 1..Len(req[h].ops) }

\* h and k handled a first-contact message of the same user, both read no
\* session, both went on to OnboardingState.create and both have returned;
\* theirs are the only messages of the user: nothing was answered to the user
\* before and no third message is being handled
BothReadNoSession(h, k) ==
  /\ h # k
  /\ req[h].pc = "send" /\ req[k].pc = "send"
  /\ req[h].from = req[k].from
  /\ req[h].loaded = Null /\ req[k].loaded = Null
  /\ "create" \in StepsDone(h) /\ "create" \in StepsDone(k)
  /\ sent[req[h].from] = Null
  /\ \A j \in Slots \ {h, k} : req[j].pc = "idle" \/ req[j].from # req[h].from

\* C37: a phone never has more than one OnboardingState record, and when two
\* first-contact messages of one unknown user are handled concurrently (both
\* read no session before either creates one) and the store does not fail,
\* exactly one session results, at step language with no data, and each of
\* the two handlers returns a non-empty reply without completing anything
OneSessionPerFirstContact ==
  /\ \A u \in Users : Len(OnboardingState[u]) <= 1
  /\ \A h, k \in Slots :
       (BothReadNoSession(h, k) /\ faults = 0)
       => /\ OnboardingState[req[h].from] # Null
          /\ OnboardingState[req[h].from][1].currentStep = "language"
          /\ OnboardingState[req[h].from][1].data = EmptyMap
          /\ req[h].response.key # "" /\ req[k].response.key # ""
          /\ ~req[h].completed /\ ~req[k].completed

\* both handlers of a first contact have returned: one created the session
\* and answers with the welcome text, the other was refused by the unique
\* index and answers with the text of the catch block
BothFirstContactsAnswered ==
  \E h, k \in Slots :
    /\ BothReadNoSession(h, k) /\ faults = 0
    /\ req[h].response = Prompt("welcome", "en", <<>>)
    /\ req[k].response = CatchText /\ req[k].failed

====
